---------------------------- MODULE Spec2Model ----------------------------
(***************************************************************************)
(* radikoRecScheduler: the recurrence resolver (internal/timecalc.go) and  *)
(* the segmented download / assembly pipeline (internal/runner.go).        *)
(*                                                                         *)
(* Strings the code indexes (start times, formatted names) are sequences   *)
(* of one-character strings.  The seven day-of-week keys of DayOfWeekMap   *)
(* are written in ASCII: "nichi" "getsu" "ka" "sui" "moku" "kin" "do" for  *)
(* the kanji of Sunday .. Saturday.                                        *)
(*                                                                         *)
(* Instants are counted in ticks (TicksPerSecond per second) from          *)
(* 2026-03-22 00:00:00 +09:00, a Sunday; the calendar is that of 2026.     *)
(***************************************************************************)
EXTENDS Integers, Sequences, FiniteSets, TLC

VARIABLES
    DayOfWeekMap,   \* package variable DayOfWeekMap (timecalc.go)
    JST,            \* package variable JST, set by init() (timecalc.go)
    entry,          \* the ScheduleEntry handed to the resolver
    now,            \* the instant handed to the resolver
    results,        \* what each call of the resolver returned, in call order
    programData,    \* the program guide handed to FindProgramTitle
    targetTime,     \* the start time handed to FindProgramTitle
    targetDayOfWeek, \* the day of week handed to FindProgramTitle
    found,          \* what each call of FindProgramTitle returned, in call order
    pc,             \* where the pipeline stands
    fs,             \* the file system: path -> content, for the files that exist
    unwritable,     \* directories and files the process may not write to
    fdLimit,        \* how many files the process may hold open at once
    openRes,        \* response bodies and files opened and not yet closed
    dirs,           \* the directories that exist
    trace,          \* the calls, requests, creations and opens made so far, in order
    urls,           \* bulkDownload: the segment URIs
    destDir,        \* bulkDownload: the directory to stage into
    i,              \* bulkDownload: the loop index
    resp,           \* bulkDownload: the response in hand
    downloadedFiles, \* bulkDownload: the paths recorded so far
    bdRet,          \* bulkDownload: what it returned
    inputFiles,     \* concatAACFiles: the files to concatenate
    outputFile,     \* concatAACFiles: the destination
    ci,             \* concatAACFiles: the loop index
    ccRet,          \* concatAACFiles: the error it returned
    scheduleFilePath, \* main: the value of the -file flag
    schedule,       \* main: the schedule entries
    idx,            \* main: how many entries the loop has taken
    ej,             \* ExecuteJob: its arguments and local variables
    jobs            \* what each call of ExecuteJob returned, in call order

findVars == <<programData, targetTime, targetDayOfWeek, found>>
resolverVars == <<DayOfWeekMap, JST, findVars, entry, now, results>>
envVars == <<fs, dirs, unwritable, fdLimit, openRes, trace>>
bdVars == <<urls, destDir, i, resp, downloadedFiles, bdRet>>
ccVars == <<inputFiles, outputFile, ci, ccRet>>
mainVars == <<scheduleFilePath, schedule, idx, ej, jobs>>
vars == <<resolverVars, pc, envVars, bdVars, ccVars, mainVars>>

-----------------------------------------------------------------------------
(* Bounds of the model *)

TicksPerSecond == 2       \* sub-second resolution of an instant
FirstNowDay == 7          \* first day (from the epoch Sunday) now is drawn from
MaxNowDay == 20           \* last such day: 2026-03-29 .. 2026-04-11
MaxCalls == 2             \* calls of the resolver on one (entry, now)
MaxSegments == 3          \* longest segment list, longest list of input files

-----------------------------------------------------------------------------
(* package time: the part the resolver uses *)

SecPerDay == 24 * 60 * 60
TicksPerDay == SecPerDay * TicksPerSecond

\* time.Weekday: Sunday = 0 .. Saturday = 6
Sunday == 0
Monday == Sunday + 1
Tuesday == Monday + 1
Wednesday == Tuesday + 1
Thursday == Wednesday + 1
Friday == Thursday + 1
Saturday == Friday + 1

\* Locations: a fixed offset east of UTC, in seconds (Asia/Tokyo has had no
\* daylight saving time since 1951).
Tokyo == [name |-> "Asia/Tokyo", offset |-> 9 * 60 * 60]
UTC == [name |-> "UTC", offset |-> 0]

\* time.Time{}: the zero time.
ZeroTime == [isZero |-> TRUE, unix |-> 0, loc |-> UTC]

\* Days of 2026 before the first of each month, and the epoch's day of year.
DaysBefore == <<0, 31, 59, 90, 120, 151, 181, 212, 243, 273, 304, 334, 365>>
EpochYear == 2026
EpochYDay == DaysBefore[3] + 21

\* Ticks of wall-clock time in t's location since the epoch's local midnight.
Wall(t) == t.unix + (t.loc.offset - Tokyo.offset) * TicksPerSecond

WallDay(t) == Wall(t) \div TicksPerDay
WallSec(t) == (Wall(t) % TicksPerDay) \div TicksPerSecond

\* Time.Weekday, Year, Month, Day, Hour, Minute, Second, Nanosecond (in ticks)
Weekday(t) == WallDay(t) % 7
YearOf(t) == EpochYear
YDay(t) == WallDay(t) + EpochYDay
MonthOf(t) == CHOOSE m \in 1..12 : DaysBefore[m] <= YDay(t) /\ YDay(t) < DaysBefore[m + 1]
DayOf(t) == YDay(t) - DaysBefore[MonthOf(t)] + 1
HourOf(t) == WallSec(t) \div 3600
MinuteOf(t) == (WallSec(t) % 3600) \div 60
SecondOf(t) == WallSec(t) % 60
NsecOf(t) == Wall(t) % TicksPerSecond

\* time.Date: the day may lie outside the month; it is added linearly.
Date(year, month, day, hour, min, sec, nsec, loc) ==
    [isZero |-> FALSE,
     unix |-> (((year - EpochYear) * 365 + DaysBefore[month] + (day - 1) - EpochYDay) * SecPerDay
                 + hour * 3600 + min * 60 + sec) * TicksPerSecond + nsec
              - (loc.offset - Tokyo.offset) * TicksPerSecond,
     loc |-> loc]

\* Time.AddDate (u is the value of t)
AddDate(t, years, months, days) ==
    CHOOSE r \in { Date(YearOf(u) + years, MonthOf(u) + months, DayOf(u) + days,
                        HourOf(u), MinuteOf(u), SecondOf(u), NsecOf(u), u.loc) : u \in {t} } :
        TRUE

\* Time.After
After(t, u) == t.unix > u.unix

Digit == {"0", "1", "2", "3", "4", "5", "6", "7", "8", "9"}

DigitVal(c) ==
    CASE c = "0" -> 0 [] c = "1" -> 1 [] c = "2" -> 2 [] c = "3" -> 3 [] c = "4" -> 4
      [] c = "5" -> 5 [] c = "6" -> 6 [] c = "7" -> 7 [] c = "8" -> 8 [] c = "9" -> 9

isDigit(s, k) == k <= Len(s) /\ s[k] \in Digit

Rest(s, k) == SubSeq(s, k, Len(s))

\* time.getnum: a one- or two-digit number; fixed demands two digits.
getnum(s, fixed) ==
    IF ~isDigit(s, 1) THEN [ok |-> FALSE, n |-> 0, rest |-> s]
    ELSE IF ~isDigit(s, 2)
         THEN IF fixed THEN [ok |-> FALSE, n |-> 0, rest |-> s]
              ELSE [ok |-> TRUE, n |-> DigitVal(s[1]), rest |-> Rest(s, 2)]
         ELSE [ok |-> TRUE, n |-> DigitVal(s[1]) * 10 + DigitVal(s[2]), rest |-> Rest(s, 3)]

\* The digits a fractional second takes: s[1] is the separator.
RECURSIVE FracEnd(_, _)
FracEnd(s, k) == IF isDigit(s, k) THEN FracEnd(s, k + 1) ELSE k

\* After the seconds field time.Parse accepts a fractional second the layout
\* does not name: a period or a comma followed by one or more digits.
SkipFrac(s) ==
    IF Len(s) >= 2 /\ s[1] \in {".", ","} /\ isDigit(s, 2)
    THEN Rest(s, FracEnd(s, 2))
    ELSE s

ParseError == [ok |-> FALSE, hour |-> 0, min |-> 0, sec |-> 0]

\* time.ParseInLocation("150405", value, loc): hour, minute and second of the
\* parsed time in loc.
ParseInLocation150405(value) ==
    LET h == getnum(value, FALSE)
        m == getnum(h.rest, TRUE)
        s == getnum(m.rest, TRUE)
    IN  IF ~h.ok \/ h.n >= 24 THEN ParseError
        ELSE IF ~m.ok \/ m.n >= 60 THEN ParseError
        ELSE IF ~s.ok \/ s.n >= 60 THEN ParseError
        ELSE IF Len(SkipFrac(s.rest)) # 0 THEN ParseError
        ELSE [ok |-> TRUE, hour |-> h.n, min |-> m.n, sec |-> s.n]

\* time.daysIn (the calendar is that of 2026)
DaysIn(month) == DaysBefore[month + 1] - DaysBefore[month]

TimestampError == [ok |-> FALSE, t |-> ZeroTime]

\* time.ParseInLocation("20060102150405", value, loc): a four-digit year,
\* two-digit month and day, an hour of one or two digits, two-digit minute
\* and second, then (as for every seconds field) an optional fractional
\* second, which is dropped here because ticks are not read from it.
ParseInLocation20060102150405(value, loc) ==
    IF Len(value) < 4 \/ \E k \in 1..4 : value[k] \notin Digit THEN TimestampError
    ELSE LET year == DigitVal(value[1]) * 1000 + DigitVal(value[2]) * 100
                       + DigitVal(value[3]) * 10 + DigitVal(value[4])
             mo == getnum(Rest(value, 5), TRUE)
             d == getnum(mo.rest, TRUE)
             h == getnum(d.rest, FALSE)
             mi == getnum(h.rest, TRUE)
             s == getnum(mi.rest, TRUE)
         IN  IF ~mo.ok \/ mo.n < 1 \/ mo.n > 12 THEN TimestampError
             ELSE IF ~d.ok THEN TimestampError
             ELSE IF ~h.ok \/ h.n >= 24 THEN TimestampError
             ELSE IF ~mi.ok \/ mi.n >= 60 THEN TimestampError
             ELSE IF ~s.ok \/ s.n >= 60 THEN TimestampError
             ELSE IF Len(SkipFrac(s.rest)) # 0 THEN TimestampError
             ELSE IF d.n < 1 \/ d.n > DaysIn(mo.n) THEN TimestampError
             ELSE [ok |-> TRUE, t |-> Date(year, mo.n, d.n, h.n, mi.n, s.n, 0, loc)]

\* Weekday.String()
WeekdayString ==
    << <<"S", "u", "n", "d", "a", "y">>, <<"M", "o", "n", "d", "a", "y">>,
       <<"T", "u", "e", "s", "d", "a", "y">>, <<"W", "e", "d", "n", "e", "s", "d", "a", "y">>,
       <<"T", "h", "u", "r", "s", "d", "a", "y">>, <<"F", "r", "i", "d", "a", "y">>,
       <<"S", "a", "t", "u", "r", "d", "a", "y">> >>

-----------------------------------------------------------------------------
(* internal/timecalc.go *)

DayKeys == {"nichi", "getsu", "ka", "sui", "moku", "kin", "do"}

\* The value of DayOfWeekMap the package sets.
DayOfWeekMapInit ==
    [k \in DayKeys |->
        CASE k = "nichi" -> Sunday [] k = "getsu" -> Monday [] k = "ka" -> Tuesday
          [] k = "sui" -> Wednesday [] k = "moku" -> Thursday [] k = "kin" -> Friday
          [] k = "do" -> Saturday]

NoError == [msg |-> "nil", arg |-> <<>>]

\* Candidate with the offset taken from the target to today.
Candidate_Reversed(targetWeekday, startTime, n) ==
    LET daysOffset == Weekday(n) - targetWeekday
    IN  AddDate(Date(YearOf(n), MonthOf(n), DayOf(n),
                     startTime.hour, startTime.min, startTime.sec, 0, JST),
                0, 0, daysOffset)

\* The candidate of lines 43-47: the target weekday of now's week at the
\* start time.
Candidate(targetWeekday, startTime, n) ==
    LET daysOffset == targetWeekday - Weekday(n)
    IN  AddDate(Date(YearOf(n), MonthOf(n), DayOf(n),
                     startTime.hour, startTime.min, startTime.sec, 0, JST),
                0, 0, daysOffset)

\* RecentPast with a candidate equal to now counted as future.
RecentPast_NotBefore(candidate, n) ==
    IF candidate.unix >= n.unix THEN AddDate(candidate, 0, 0, -7) ELSE candidate

\* Lines 50-56: a candidate after now is moved one week back.
RecentPast(candidate, n) ==
    IF After(candidate, n) THEN AddDate(candidate, 0, 0, -7) ELSE candidate

CalculateRecentPastRunTime(e, n) ==
    IF e.DayOfWeek \notin DOMAIN DayOfWeekMap
    THEN [t |-> ZeroTime, err |-> [msg |-> "invalid day of week", arg |-> e.DayOfWeek]]
    ELSE LET startTime == ParseInLocation150405(e.StartTime)
         IN  IF ~startTime.ok
             THEN [t |-> ZeroTime,
                   err |-> [msg |-> "invalid start time format", arg |-> e.StartTime]]
             ELSE [t |-> RecentPast(Candidate(DayOfWeekMap[e.DayOfWeek], startTime, n), n),
                   err |-> NoError]

-----------------------------------------------------------------------------
(* The file system and the process's open files *)

\* A path is the sequence of its elements.  An element is a sequence of
\* strings: a file name is spelled out character by character, the name of a
\* directory the program is handed or makes is one string.
DirPath(dir) == <<<<dir>>>>

\* The elements of a name between its separators: element j lies between
\* the separators j - 1 and j, the ends of the name counting as separators.
SplitPath(name) ==
    LET seps == {k \in 1..Len(name) : name[k] = "/"}
        sep(j) == IF j = 0 THEN 0
                  ELSE IF j > Cardinality(seps) THEN Len(name) + 1
                  ELSE CHOOSE k \in seps : Cardinality({x \in seps : x < k}) = j - 1
    IN  [j \in 1..(Cardinality(seps) + 1) |-> SubSeq(name, sep(j - 1) + 1, sep(j) - 1)]

DotDot == <<".", ".">>

\* filepath.Clean of a path that is not rooted: empty and "." elements are
\* dropped, ".." drops the element before it, when there is one to drop.
RECURSIVE CleanPath(_, _)
CleanPath(done, todo) ==
    IF todo = <<>> THEN done
    ELSE LET c == Head(todo)
         IN  IF c = <<>> \/ c = <<".">> THEN CleanPath(done, Tail(todo))
             ELSE IF c = DotDot /\ done # <<>> /\ done[Len(done)] # DotDot
                  THEN CleanPath(SubSeq(done, 1, Len(done) - 1), Tail(todo))
                  ELSE CleanPath(Append(done, c), Tail(todo))

\* filepath.Join(dir, name): the two joined by a separator, then cleaned
\* (n is the value of name).
Join(dir, name) ==
    CHOOSE path \in { CleanPath(DirPath(dir), SplitPath(n)) : n \in {name} } : TRUE

\* filepath.Dir
DirOf(path) == SubSeq(path, 1, Len(path) - 1)

\* Whether a path lies in a directory, at any depth.
Under(dir, path) == Len(path) > Len(dir) /\ SubSeq(path, 1, Len(dir)) = dir

Exists(path) == path \in DOMAIN fs

\* Files held open (a response body is no file).
OpenFiles == {r \in openRes : r.kind # "body"}

\* os.Create succeeds unless the table of open files is full, the directory
\* is missing, the file is absent and its directory may not be written, or
\* the file is present and may not be written.
CanCreate(path) ==
    /\ Cardinality(OpenFiles) < fdLimit
    /\ DirOf(path) \in dirs
    /\ Exists(path) => path \notin unwritable
    /\ ~Exists(path) => DirOf(path) \notin unwritable

\* os.Open succeeds on a file that exists, unless the table is full.
CanOpen(path) == Cardinality(OpenFiles) < fdLimit /\ Exists(path)

\* The file system with path holding content (created when absent).
WithFile(path, content) ==
    [q \in DOMAIN fs \cup {path} |-> IF q = path THEN content ELSE fs[q]]

\* What os.Create discards: the content of a file that is there (O_TRUNC).
Discarded(path) == IF Exists(path) THEN fs[path] ELSE <<>>

\* The prefixes of a content: what a failed copy may have written.
Prefixes(content) == {SubSeq(content, 1, n) : n \in 0..Len(content)}

Event(op, index, url, path, data) ==
    [op |-> op, index |-> index, url |-> url, path |-> path, data |-> data]

NoPath == <<>>

\* Errors of the pipeline: the message, the index and the URI its text
\* carries (-1 and "" when it carries none), the file it names.
NilError == [msg |-> "nil", index |-> -1, url |-> "", path |-> NoPath]
Errorf(msg, index, url, path) == [msg |-> msg, index |-> index, url |-> url, path |-> path]

-----------------------------------------------------------------------------
(* fmt.Sprintf("chunk_%04d.aac", i) *)

DigitChar(d) ==
    CASE d = 0 -> "0" [] d = 1 -> "1" [] d = 2 -> "2" [] d = 3 -> "3" [] d = 4 -> "4"
      [] d = 5 -> "5" [] d = 6 -> "6" [] d = 7 -> "7" [] d = 8 -> "8" [] d = 9 -> "9"

\* %d of a natural number
RECURSIVE Decimal(_)
Decimal(n) == IF n < 10 THEN <<DigitChar(n)>> ELSE Append(Decimal(n \div 10), DigitChar(n % 10))

\* Left padding with zeros up to a width; a longer string is kept whole.
RECURSIVE ZeroPad(_, _)
ZeroPad(digits, width) ==
    IF Len(digits) >= width THEN digits ELSE ZeroPad(<<"0">> \o digits, width)

ChunkWidth == 4

\* ChunkFileName without the index.
ChunkFileName_NoIndex(n) ==
    <<"c", "h", "u", "n", "k", "_">> \o ZeroPad(Decimal(0), ChunkWidth) \o <<".", "a", "a", "c">>

ChunkFileName(n) ==
    <<"c", "h", "u", "n", "k", "_">> \o ZeroPad(Decimal(n), ChunkWidth) \o <<".", "a", "a", "c">>

ChunkFilePath(dir, n) == Join(dir, ChunkFileName(n))

-----------------------------------------------------------------------------
(* bulkDownload (internal/runner.go; line numbers are those of its current  *)
(* version, src/unnamed/part_004)                                            *)

StatusOK == 200

\* http.NewRequestWithContext fails on a URI that does not parse.
ValidURL(u) == u # "http://[bad"

\* The URI of the iteration; i counts from 0.
CurURL == urls[i + 1]
CurPath == ChunkFilePath(destDir, i)

\* A return of bulkDownload: the deferred Close calls of every iteration run
\* now, and only now.
BdReturnWith(files, err) ==
    /\ bdRet' = [done |-> TRUE, files |-> files, err |-> err]
    /\ openRes' = {r \in openRes : r.kind \notin {"body", "file"}}
    /\ pc' = "done"

\* Line 141: the list is exhausted; the recorded paths are returned.
BdReturn ==
    /\ pc = "bd_loop"
    /\ i = Len(urls)
    /\ BdReturnWith(downloadedFiles, NilError)
    /\ UNCHANGED <<resolverVars, mainVars, fs, dirs, unwritable, fdLimit, trace, urls, destDir, i, resp,
                   downloadedFiles, ccVars>>

\* Lines 146-149: the request cannot be built.
BdNewRequestFail ==
    /\ pc = "bd_loop"
    /\ i < Len(urls)
    /\ ~ValidURL(CurURL)
    /\ BdReturnWith(<<>>, Errorf("failed to create request for chunk", i, CurURL, NoPath))
    /\ UNCHANGED <<resolverVars, mainVars, fs, dirs, unwritable, fdLimit, trace, urls, destDir, i, resp,
                   downloadedFiles, ccVars>>

\* Lines 146-149: the request is built.
BdNewRequest ==
    /\ pc = "bd_loop"
    /\ i < Len(urls)
    /\ ValidURL(CurURL)
    /\ pc' = "bd_do"
    /\ UNCHANGED <<resolverVars, mainVars, envVars, bdVars, ccVars>>

\* BdDoFail going on to the next segment.
BdDoFail_Continue ==
    /\ pc = "bd_do"
    /\ trace' = Append(trace, Event("request", i, CurURL, NoPath, <<>>))
    /\ i' = i + 1
    /\ pc' = "bd_loop"
    /\ UNCHANGED <<resolverVars, mainVars, fs, dirs, unwritable, fdLimit, openRes, urls, destDir, resp,
                   downloadedFiles, bdRet, ccVars>>

\* Lines 151-154: client.Do fails (no response).
BdDoFail ==
    /\ pc = "bd_do"
    /\ trace' = Append(trace, Event("request", i, CurURL, NoPath, <<>>))
    /\ BdReturnWith(<<>>, Errorf("failed to download chunk", i, CurURL, NoPath))
    /\ UNCHANGED <<resolverVars, mainVars, fs, dirs, unwritable, fdLimit, urls, destDir, i, resp,
                   downloadedFiles, ccVars>>

\* Lines 151-155: client.Do answers; the body is open until the return.
BdDo(status, body) ==
    /\ pc = "bd_do"
    /\ trace' = trace \o <<Event("request", i, CurURL, NoPath, <<>>),
                           Event("response", i, CurURL, NoPath, body)>>
    /\ resp' = [status |-> status, body |-> body]
    /\ openRes' = openRes \cup {[kind |-> "body", index |-> i]}
    /\ pc' = "bd_status"
    /\ UNCHANGED <<resolverVars, mainVars, fs, dirs, unwritable, fdLimit, urls, destDir, i,
                   downloadedFiles, bdRet, ccVars>>

\* Lines 157-159: a status other than 200.
BdBadStatus ==
    /\ pc = "bd_status"
    /\ resp.status # StatusOK
    /\ BdReturnWith(<<>>, Errorf("failed to download chunk: HTTP status", i, CurURL, NoPath))
    /\ UNCHANGED <<resolverVars, mainVars, fs, dirs, unwritable, fdLimit, trace, urls, destDir, i, resp,
                   downloadedFiles, ccVars>>

\* Lines 161-164: the staged file cannot be created.  The message carries
\* the index and the error of os.Create, which names the file.
BdCreateFail ==
    /\ pc = "bd_status"
    /\ resp.status = StatusOK
    /\ ~CanCreate(CurPath)
    /\ BdReturnWith(<<>>, Errorf("failed to create file for chunk", i, "", CurPath))
    /\ UNCHANGED <<resolverVars, mainVars, fs, dirs, unwritable, fdLimit, trace, urls, destDir, i, resp,
                   downloadedFiles, ccVars>>

\* Lines 161-165: the staged file is created empty (or truncated) and stays
\* open until the return.
BdCreate ==
    /\ pc = "bd_status"
    /\ resp.status = StatusOK
    /\ CanCreate(CurPath)
    /\ fs' = WithFile(CurPath, <<>>)
    /\ openRes' = openRes \cup {[kind |-> "file", index |-> i]}
    /\ trace' = Append(trace, Event("create", i, CurURL, CurPath, Discarded(CurPath)))
    /\ pc' = "bd_copy"
    /\ UNCHANGED <<resolverVars, mainVars, dirs, unwritable, fdLimit, bdVars, ccVars>>

\* Lines 167-169: io.Copy fails after writing part of the body.
BdCopyFail ==
    /\ pc = "bd_copy"
    /\ \E part \in Prefixes(resp.body) : fs' = WithFile(CurPath, part)
    /\ BdReturnWith(<<>>, Errorf("failed to save chunk to file", i, CurURL, NoPath))
    /\ UNCHANGED <<resolverVars, mainVars, dirs, unwritable, fdLimit, trace, urls, destDir, i, resp,
                   downloadedFiles, ccVars>>

\* Lines 167-170: the body is copied whole and the path recorded.
BdCopy ==
    /\ pc = "bd_copy"
    /\ fs' = WithFile(CurPath, resp.body)
    /\ downloadedFiles' = Append(downloadedFiles, CurPath)
    /\ i' = i + 1
    /\ pc' = "bd_loop"
    /\ UNCHANGED <<resolverVars, mainVars, dirs, unwritable, fdLimit, openRes, trace, urls, destDir, resp,
                   bdRet, ccVars>>

\* Lines 143-144 alone: the staged path of segment i is computed and kept,
\* and the loop goes to the next index.
BdName ==
    /\ pc = "bd_name"
    /\ i < Len(urls)
    /\ downloadedFiles' = Append(downloadedFiles, CurPath)
    /\ i' = i + 1
    /\ UNCHANGED <<resolverVars, mainVars, pc, envVars, urls, destDir, resp, bdRet, ccVars>>

-----------------------------------------------------------------------------
(* concatAACFiles (line numbers of src/unnamed/part_004) *)

CurInput == inputFiles[ci + 1]

\* A return of concatAACFiles after the output was opened: the deferred
\* Close calls run; the output file stays as it is.
CcReturnWith(err) ==
    /\ ccRet' = [done |-> TRUE, err |-> err]
    /\ openRes' = {r \in openRes : r.kind \notin {"out", "in"}}
    /\ pc' = "done"

\* CcCreateFail after the input files were opened.
CcCreateFail_InputsFirst ==
    /\ pc = "cc_create"
    /\ ~CanCreate(outputFile)
    /\ trace' = trace \o [n \in 1..Len(inputFiles) |->
                            Event("open", n - 1, "", inputFiles[n], <<>>)]
    /\ ccRet' = [done |-> TRUE, err |-> Errorf("failed to create output file", -1, "", outputFile)]
    /\ pc' = "done"
    /\ UNCHANGED <<resolverVars, mainVars, fs, dirs, unwritable, fdLimit, openRes, bdVars, inputFiles,
                   outputFile, ci>>

\* Lines 177-180: the output cannot be created; nothing was opened.
CcCreateFail ==
    /\ pc = "cc_create"
    /\ ~CanCreate(outputFile)
    /\ ccRet' = [done |-> TRUE, err |-> Errorf("failed to create output file", -1, "", outputFile)]
    /\ pc' = "done"
    /\ UNCHANGED <<resolverVars, mainVars, envVars, bdVars, inputFiles, outputFile, ci>>

\* Lines 177-181: os.Create makes the output empty, truncating a file that
\* is there.
CcCreate ==
    /\ pc = "cc_create"
    /\ CanCreate(outputFile)
    /\ fs' = WithFile(outputFile, <<>>)
    /\ openRes' = openRes \cup {[kind |-> "out", index |-> -1]}
    /\ trace' = Append(trace, Event("create", -1, "", outputFile, Discarded(outputFile)))
    /\ pc' = "cc_loop"
    /\ UNCHANGED <<resolverVars, mainVars, dirs, unwritable, fdLimit, bdVars, ccVars>>

\* CcReturn rejecting an empty list of inputs.
CcReturn_RejectEmpty ==
    /\ pc = "cc_loop"
    /\ ci = Len(inputFiles)
    /\ CcReturnWith(IF inputFiles = <<>> THEN Errorf("no input files", -1, "", outputFile)
                                         ELSE NilError)
    /\ UNCHANGED <<resolverVars, mainVars, fs, dirs, unwritable, fdLimit, trace, bdVars, inputFiles,
                   outputFile, ci>>

\* Lines 183, 194-195: every input is copied.
CcReturn ==
    /\ pc = "cc_loop"
    /\ ci = Len(inputFiles)
    /\ CcReturnWith(NilError)
    /\ UNCHANGED <<resolverVars, mainVars, fs, dirs, unwritable, fdLimit, trace, bdVars, inputFiles,
                   outputFile, ci>>

\* CcOpenFail removing the partial output.
CcOpenFail_Cleanup ==
    /\ pc = "cc_loop"
    /\ ci < Len(inputFiles)
    /\ ~CanOpen(CurInput)
    /\ fs' = [q \in DOMAIN fs \ {outputFile} |-> fs[q]]
    /\ CcReturnWith(Errorf("failed to open input file", -1, "", CurInput))
    /\ UNCHANGED <<resolverVars, mainVars, dirs, unwritable, fdLimit, trace, bdVars, inputFiles,
                   outputFile, ci>>

\* Lines 184-187: an input cannot be opened.
CcOpenFail ==
    /\ pc = "cc_loop"
    /\ ci < Len(inputFiles)
    /\ ~CanOpen(CurInput)
    /\ CcReturnWith(Errorf("failed to open input file", -1, "", CurInput))
    /\ UNCHANGED <<resolverVars, mainVars, fs, dirs, unwritable, fdLimit, trace, bdVars, inputFiles,
                   outputFile, ci>>

\* Lines 184-188: the input is opened and stays open until the return.
CcOpen ==
    /\ pc = "cc_loop"
    /\ ci < Len(inputFiles)
    /\ CanOpen(CurInput)
    /\ openRes' = openRes \cup {[kind |-> "in", index |-> ci]}
    /\ trace' = Append(trace, Event("open", ci, "", CurInput, <<>>))
    /\ pc' = "cc_copy"
    /\ UNCHANGED <<resolverVars, mainVars, fs, dirs, unwritable, fdLimit, bdVars, ccVars>>

\* Lines 190-192: io.Copy fails after appending part of the input.
CcCopyFail ==
    /\ pc = "cc_copy"
    /\ \E part \in Prefixes(fs[CurInput]) :
          /\ fs' = WithFile(outputFile, fs[outputFile] \o part)
          /\ trace' = Append(trace, Event("copy", ci, "", CurInput, part))
    /\ CcReturnWith(Errorf("failed to concatenate file", -1, "", CurInput))
    /\ UNCHANGED <<resolverVars, mainVars, dirs, unwritable, fdLimit, bdVars, inputFiles, outputFile, ci>>

\* CcCopy writing at the start of the output.
CcCopy_Overwrite ==
    /\ pc = "cc_copy"
    /\ fs' = WithFile(outputFile, fs[CurInput])
    /\ trace' = Append(trace, Event("copy", ci, "", CurInput, fs[CurInput]))
    /\ ci' = ci + 1
    /\ pc' = "cc_loop"
    /\ UNCHANGED <<resolverVars, mainVars, dirs, unwritable, fdLimit, openRes, bdVars, inputFiles,
                   outputFile, ccRet>>

\* Line 190: the whole input is appended to the output.
CcCopy ==
    /\ pc = "cc_copy"
    /\ fs' = WithFile(outputFile, fs[outputFile] \o fs[CurInput])
    /\ trace' = Append(trace, Event("copy", ci, "", CurInput, fs[CurInput]))
    /\ ci' = ci + 1
    /\ pc' = "cc_loop"
    /\ UNCHANGED <<resolverVars, mainVars, dirs, unwritable, fdLimit, openRes, bdVars, inputFiles,
                   outputFile, ccRet>>

-----------------------------------------------------------------------------
(* internal/program.go: the state before a call of FindProgramTitle *)

\* A program guide: its text is well-formed XML with the stations and their
\* programs in document order, or it is not.
Guide(stations) == [wellFormed |-> TRUE, stations |-> stations]
MalformedGuide == [wellFormed |-> FALSE, stations |-> <<>>]

FindIdle ==
    /\ programData = MalformedGuide
    /\ targetTime = <<>>
    /\ targetDayOfWeek = <<>>
    /\ found = <<>>

-----------------------------------------------------------------------------
(* Inputs of the pipeline *)

NoFiles == [q \in {} |-> <<>>]

\* No call of ExecuteJob is in progress.
NoJob == [stage |-> "none", pastTime |-> ZeroTime, outputDir |-> "", chunklist |-> <<>>,
          tempDir |-> ""]
NoResponse == [status |-> 0, body |-> <<>>]
NoReturn == [done |-> FALSE, files |-> <<>>, err |-> NilError]

\* Sequences over S of length at most n.
SeqUpTo(S, n) == UNION {[1..m -> S] : m \in 0..n}

\* Contents: empty, one byte, two bytes.
Body(n) == [k \in 1..(n % 3) |-> n]
BodyInputs == {Body(n) : n \in 0..2}

URLInputs == {"http://mock.chunk/chunk1.aac", "http://mock.chunk/chunk2.aac", "http://[bad"}

\* Statuses a server answers with.
StatusInputs == {StatusOK, 404, 500}

TempDir == "radigo-chunks-1"
OutputDir == "output"
OutputPath == Join(OutputDir, <<"2", "0", "2", "6", "-", "S", "T", "1", ".", "a", "a", "c">>)

\* Limits on open files: one that the longest list exhausts in bulkDownload,
\* one that it exhausts in concatAACFiles, one that is never reached.
FdLimitInputs == {MaxSegments - 1, MaxSegments, 2 * MaxSegments + 2}

ResolverIdle ==
    /\ DayOfWeekMap = DayOfWeekMapInit
    /\ JST = Tokyo
    /\ FindIdle
    /\ entry = [ProgramName |-> "Test Program", DayOfWeek |-> "ka",
                StartTime |-> <<"1", "0", "0", "0", "0", "0">>, StationID |-> "ST1"]
    /\ now = [isZero |-> FALSE, unix |-> FirstNowDay * TicksPerDay, loc |-> Tokyo]
    /\ results = <<>>

BdIdle ==
    /\ urls = <<>>
    /\ destDir = TempDir
    /\ i = 0
    /\ resp = NoResponse
    /\ downloadedFiles = <<>>
    /\ bdRet = NoReturn

CcIdle ==
    /\ inputFiles = <<>>
    /\ outputFile = OutputPath
    /\ ci = 0
    /\ ccRet = [done |-> FALSE, err |-> NilError]

MainIdle ==
    /\ scheduleFilePath = NoPath
    /\ schedule = <<>>
    /\ idx = 0
    /\ ej = NoJob
    /\ jobs = <<>>

PipelineIdle ==
    /\ pc = "idle"
    /\ fs = NoFiles
    /\ dirs = {}
    /\ unwritable = {}
    /\ fdLimit = 2 * MaxSegments + 2
    /\ openRes = {}
    /\ trace = <<>>
    /\ BdIdle
    /\ CcIdle
    /\ MainIdle

\* bulkDownload is entered with a fresh, empty staging directory (which the
\* process may have lost the right to write to).
InitDownload ==
    /\ ResolverIdle
    /\ pc = "bd_loop"
    /\ fs = NoFiles
    /\ dirs = {DirPath(TempDir)}
    /\ unwritable \in {{}, {DirPath(TempDir)}}
    /\ fdLimit \in FdLimitInputs
    /\ openRes = {}
    /\ trace = <<>>
    /\ urls \in SeqUpTo(URLInputs, MaxSegments)
    /\ destDir = TempDir
    /\ i = 0
    /\ resp = NoResponse
    /\ downloadedFiles = <<>>
    /\ bdRet = NoReturn
    /\ CcIdle
    /\ MainIdle

\* The files concatAACFiles may be handed: the staged names, of which any may
\* be missing.
StagedInputs == {ChunkFilePath(TempDir, n) : n \in 0..(MaxSegments - 1)}

StagedBody(path) == Body(CHOOSE n \in 0..(MaxSegments - 1) : path = ChunkFilePath(TempDir, n))

OldOutput == <<"o", "l", "d">>

\* The destination before the call: absent in a writable directory, absent
\* in a directory that is not writable, present and writable, present and
\* not writable.
OutputInputs ==
    { [present |-> FALSE, deny |-> {}], [present |-> FALSE, deny |-> {DirPath(OutputDir)}],
      [present |-> TRUE, deny |-> {}], [present |-> TRUE, deny |-> {OutputPath}] }

\* concatAACFiles is entered with an output path outside the staging
\* directory, as ExecuteJob calls it.
InitConcat ==
    /\ ResolverIdle
    /\ pc = "cc_create"
    /\ \E present \in SUBSET StagedInputs, out \in OutputInputs :
          /\ fs = [q \in present \cup (IF out.present THEN {OutputPath} ELSE {}) |->
                      IF q = OutputPath THEN OldOutput ELSE StagedBody(q)]
          /\ unwritable = out.deny
    /\ dirs = {DirPath(TempDir), DirPath(OutputDir)}
    /\ fdLimit \in FdLimitInputs
    /\ openRes = {}
    /\ trace = <<>>
    /\ BdIdle
    /\ inputFiles \in SeqUpTo(StagedInputs, MaxSegments)
    /\ outputFile = OutputPath
    /\ ci = 0
    /\ ccRet = [done |-> FALSE, err |-> NilError]
    /\ MainIdle

-----------------------------------------------------------------------------
(* The resolver's inputs *)

\* Day-of-week values of a schedule: the seven keys and two that are no key.
DayInputs == DayKeys \cup {"Invalid", ""}

\* Start times of a schedule: those of the tests, the ends of the day, and
\* values that are not six digits of a 24-hour clock.
StartTimeInputs ==
    { <<"0", "3", "0", "0", "0", "0">>, <<"1", "0", "0", "0", "0", "0">>,
      <<"1", "5", "0", "0", "0", "0">>, <<"0", "0", "0", "0", "0", "0">>,
      <<"2", "3", "5", "9", "5", "9">>,
      <<"1", "0", "0">>, <<>>, <<"2", "4", "0", "0", "0", "0">>,
      <<"2", "3", "6", "0", "0", "0">>, <<"2", "3", "5", "9", "6", "0">>,
      <<"1", "0", "0", "0", "0", "a">>, <<"1", "0", "0", "0", "0", "0", "0">>,
      <<"1", "0", "0", "0", "0", "0", ".">>,
      <<"1", "0", "0", "0", "0", "0", ".", "5">>,
      <<"1", "0", "0", "0", "0", "0", ",", "2", "5">> }

EntryInputs ==
    [ProgramName : {"Test Program"}, DayOfWeek : DayInputs,
     StartTime : StartTimeInputs, StationID : {"ST1"}]

\* Seconds of the day now is drawn from.
ClockInputs ==
    {0, 1 * 3600, 3 * 3600, 10 * 3600 - 1, 10 * 3600, 15 * 3600, 23 * 3600 + 59 * 60 + 59}

\* now: an instant of the window, carried in Tokyo time (as main hands it
\* over) or in UTC.
NowInputs ==
    { [isZero |-> FALSE,
       unix |-> (d * SecPerDay + c) * TicksPerSecond + f,
       loc |-> l] :
         d \in FirstNowDay..MaxNowDay, c \in ClockInputs,
         f \in 0..(TicksPerSecond - 1), l \in {Tokyo, UTC} }

InitResolve ==
    /\ DayOfWeekMap = DayOfWeekMapInit
    /\ JST = Tokyo
    /\ FindIdle
    /\ entry \in EntryInputs
    /\ now \in NowInputs
    /\ results = <<>>
    /\ PipelineIdle

\* Resolve with a lookup that uses its key up.
Resolve_Consuming ==
    /\ pc = "idle"
    /\ Len(results) < MaxCalls
    /\ results' = Append(results, CalculateRecentPastRunTime(entry, now))
    /\ DayOfWeekMap' = [k \in DOMAIN DayOfWeekMap \ {entry.DayOfWeek} |-> DayOfWeekMap[k]]
    /\ UNCHANGED <<JST, findVars, entry, now, pc, envVars, bdVars, ccVars, mainVars>>

\* One call CalculateRecentPastRunTime(entry, now).
Resolve ==
    /\ pc = "idle"
    /\ Len(results) < MaxCalls
    /\ results' = Append(results, CalculateRecentPastRunTime(entry, now))
    /\ UNCHANGED <<DayOfWeekMap, JST, findVars, entry, now, pc, envVars, bdVars, ccVars, mainVars>>

NextResolve == Resolve

SpecResolve == InitResolve /\ [][NextResolve]_vars

-----------------------------------------------------------------------------
(* The specifications of the pipeline *)

BdAnswer == \E status \in StatusInputs, body \in BodyInputs : BdDo(status, body)

NextDownload ==
    \/ BdReturn
    \/ BdNewRequestFail
    \/ BdNewRequest
    \/ BdDoFail
    \/ BdAnswer
    \/ BdBadStatus
    \/ BdCreateFail
    \/ BdCreate
    \/ BdCopyFail
    \/ BdCopy

SpecDownload == InitDownload /\ [][NextDownload]_vars

NextConcat ==
    \/ CcCreateFail
    \/ CcCreate
    \/ CcReturn
    \/ CcOpenFail
    \/ CcOpen
    \/ CcCopyFail
    \/ CcCopy

SpecConcat == InitConcat /\ [][NextConcat]_vars

-----------------------------------------------------------------------------
(* ExecuteJob (internal/runner.go; line numbers are those of its current     *)
(* version, src/unnamed/part_004)                                            *)

\* fmt.Errorf("<stage message>[ for <program>]: %w", cause): the message, the
\* program name its text carries (<<>> when it carries none) and the error it
\* wraps.
NoProgram == <<>>
NoJobError == [msg |-> "nil", program |-> NoProgram, cause |-> NilError]
WrapError(msg, program, cause) == [msg |-> msg, program |-> program, cause |-> cause]

\* An error of the streaming session.
ClientError(msg) == Errorf(msg, -1, "", NoPath)

\* An error of os.MkdirTemp, os.MkdirAll.
PathError(msg, path) == Errorf(msg, -1, "", path)

YearWidth == 4
FieldWidth == 2

\* pastTime.Format("20060102150405")
Format20060102150405(t) ==
    ZeroPad(Decimal(YearOf(t)), YearWidth) \o ZeroPad(Decimal(MonthOf(t)), FieldWidth)
      \o ZeroPad(Decimal(DayOf(t)), FieldWidth) \o ZeroPad(Decimal(HourOf(t)), FieldWidth)
      \o ZeroPad(Decimal(MinuteOf(t)), FieldWidth) \o ZeroPad(Decimal(SecondOf(t)), FieldWidth)

\* Line 126: fmt.Sprintf("%s-%s-%s.aac", ...)
OutputFileName(e, pastTime) ==
    Format20060102150405(pastTime) \o <<"-">> \o e.StationID \o <<"-">> \o e.ProgramName
      \o <<".", "a", "a", "c">>

\* Line 127
OutputFilePath(outputDir, e, pastTime) == Join(outputDir, OutputFileName(e, pastTime))

\* os.RemoveAll(dir): the directory and all it holds are gone, or (on an
\* error) still there.
RemoveAll_Keep(dir, ok) ==
    /\ fs' = fs
    /\ dirs' = dirs

RemoveAll(dir, ok) ==
    /\ fs' = IF ok THEN [q \in {f \in DOMAIN fs : ~Under(DirPath(dir), f)} |-> fs[q]] ELSE fs
    /\ dirs' = IF ok THEN {d \in dirs : d # DirPath(dir) /\ ~Under(DirPath(dir), d)} ELSE dirs

\* ExecuteJob returns err to main, which logs it and takes the next entry
\* (program_test.go, lines 190-193).
JobReturns(err) ==
    /\ jobs' = Append(jobs, [index |-> idx, err |-> err, tempDir |-> ej.tempDir])
    /\ ej' = [ej EXCEPT !.stage = "returned"]
    /\ idx' = idx + 1
    /\ pc' = "main_loop"

\* A return before the workspace is made: nothing is deferred.
EjReturn(op, err) ==
    /\ trace' = trace \o <<Event(op, idx, "", NoPath, <<>>), Event("return", idx, "", NoPath, <<>>)>>
    /\ JobReturns(err)
    /\ UNCHANGED <<resolverVars, fs, dirs, unwritable, fdLimit, openRes, bdVars, ccVars, scheduleFilePath, schedule>>

\* A return after the workspace is made: the deferred function of lines
\* 96-101 removes it, and logs a warning when that fails.
EjReturnDeferred(err) ==
    /\ \E ok \in BOOLEAN :
          /\ RemoveAll(ej.tempDir, ok)
          /\ trace' = trace \o <<Event("removeall", idx, "", DirPath(ej.tempDir), <<ok>>),
                                 Event("return", idx, "", NoPath, <<>>)>>
    /\ JobReturns(err)
    /\ UNCHANGED <<resolverVars, unwritable, fdLimit, openRes, bdVars, ccVars, scheduleFilePath, schedule>>

\* EjAuthorizeFail trying again.
EjAuthorizeFail_Retry ==
    /\ pc = "ej_auth"
    /\ trace' = Append(trace, Event("authorize", idx, "", NoPath, <<>>))
    /\ UNCHANGED <<resolverVars, pc, fs, dirs, unwritable, fdLimit, openRes, bdVars, ccVars,
                   mainVars>>

\* Lines 62-65: AuthorizeToken fails.
EjAuthorizeFail ==
    /\ pc = "ej_auth"
    /\ EjReturn("authorize",
                WrapError("failed to authorize Radiko token", NoProgram,
                          ClientError("auth failed")))

\* Lines 62-73: AuthorizeToken succeeds.
EjAuthorize ==
    /\ pc = "ej_auth"
    /\ trace' = Append(trace, Event("authorize", idx, "", NoPath, <<>>))
    /\ pc' = "ej_playlist"
    /\ UNCHANGED <<resolverVars, fs, dirs, unwritable, fdLimit, openRes, bdVars, ccVars,
                   mainVars>>

\* EjPlaylistFail reporting the error and going on to the segment list.
EjPlaylistFail_GoesOn ==
    /\ pc = "ej_playlist"
    /\ trace' = Append(trace, Event("playlist", idx, "", NoPath, <<>>))
    /\ jobs' = Append(jobs, [index |-> idx,
                             err |-> WrapError("failed to get timeshift M3U8 playlist URI",
                                               entry.ProgramName, ClientError("m3u8 failed")),
                             tempDir |-> ej.tempDir])
    /\ pc' = "ej_chunklist"
    /\ UNCHANGED <<resolverVars, fs, dirs, unwritable, fdLimit, openRes, bdVars, ccVars,
                   scheduleFilePath, schedule, idx, ej>>

\* Lines 77-80: TimeshiftPlaylistM3U8 fails.
EjPlaylistFail ==
    /\ pc = "ej_playlist"
    /\ EjReturn("playlist",
                WrapError("failed to get timeshift M3U8 playlist URI", entry.ProgramName,
                          ClientError("m3u8 failed")))

\* Lines 77-81: TimeshiftPlaylistM3U8 returns the playlist URI.
EjPlaylist ==
    /\ pc = "ej_playlist"
    /\ trace' = Append(trace, Event("playlist", idx, "", NoPath, <<>>))
    /\ pc' = "ej_chunklist"
    /\ UNCHANGED <<resolverVars, fs, dirs, unwritable, fdLimit, openRes, bdVars, ccVars,
                   mainVars>>

\* EjChunklistFail in a job that made its workspace before asking for the
\* segment list.
EjChunklistFail_WorkspaceFirst ==
    /\ pc = "ej_chunklist"
    /\ dirs' = dirs \cup {DirPath(TempDir)}
    /\ trace' = trace \o <<Event("mkdirtemp", idx, "", DirPath(TempDir), <<>>),
                           Event("chunklist", idx, "", NoPath, <<>>),
                           Event("return", idx, "", NoPath, <<>>)>>
    /\ JobReturns(WrapError("failed to get chunklist from M3U8", entry.ProgramName,
                            ClientError("chunklist failed")))
    /\ UNCHANGED <<resolverVars, fs, unwritable, fdLimit, openRes, bdVars, ccVars, scheduleFilePath,
                   schedule>>

\* Lines 85-88: GetChunklistFromM3U8 fails.
EjChunklistFail ==
    /\ pc = "ej_chunklist"
    /\ EjReturn("chunklist",
                WrapError("failed to get chunklist from M3U8", entry.ProgramName,
                          ClientError("chunklist failed")))

\* Lines 85-89: GetChunklistFromM3U8 returns the segment URIs.
EjChunklist(chunklist) ==
    /\ pc = "ej_chunklist"
    /\ trace' = Append(trace, Event("chunklist", idx, "", NoPath, <<>>))
    /\ ej' = [ej EXCEPT !.chunklist = chunklist]
    /\ pc' = "ej_mkdirtemp"
    /\ UNCHANGED <<resolverVars, fs, dirs, unwritable, fdLimit, openRes, bdVars, ccVars,
                   scheduleFilePath, schedule, idx, jobs>>

\* Lines 92-95: os.MkdirTemp fails.
EjMkdirTempFail ==
    /\ pc = "ej_mkdirtemp"
    /\ EjReturn("mkdirtemp",
                WrapError("failed to create temporary directory", NoProgram,
                          PathError("mkdirtemp", NoPath)))

\* Lines 92-109: os.MkdirTemp makes a directory that was not there, its
\* removal is deferred, and bulkDownload is called.
EjMkdirTemp(tempDir) ==
    /\ pc = "ej_mkdirtemp"
    /\ DirPath(tempDir) \notin dirs
    /\ dirs' = dirs \cup {DirPath(tempDir)}
    /\ trace' = Append(trace, Event("mkdirtemp", idx, "", DirPath(tempDir), <<>>))
    /\ ej' = [ej EXCEPT !.tempDir = tempDir, !.stage = "download"]
    /\ urls' = ej.chunklist
    /\ destDir' = tempDir
    /\ i' = 0
    /\ resp' = NoResponse
    /\ downloadedFiles' = <<>>
    /\ bdRet' = NoReturn
    /\ pc' = "bd_loop"
    /\ UNCHANGED <<resolverVars, fs, unwritable, fdLimit, openRes, ccVars, scheduleFilePath, schedule, idx, jobs>>

\* The call of concatAACFiles, line 129.
CallConcat ==
    /\ inputFiles' = bdRet.files
    /\ outputFile' = OutputFilePath(ej.outputDir, entry, ej.pastTime)
    /\ ci' = 0
    /\ ccRet' = [done |-> FALSE, err |-> NilError]
    /\ ej' = [ej EXCEPT !.stage = "assemble"]
    /\ pc' = "cc_create"

\* EjDownloadFail handing what was staged to the assembler.
EjDownloadFail_Assemble ==
    /\ pc = "done"
    /\ ej.stage = "download"
    /\ bdRet.done
    /\ bdRet.err # NilError
    /\ CallConcat
    /\ UNCHANGED <<resolverVars, envVars, bdVars, scheduleFilePath, schedule, idx, jobs>>

\* EjDownloadFail returning without the deferred removal.
EjDownloadFail_NoCleanup ==
    /\ pc = "done"
    /\ ej.stage = "download"
    /\ bdRet.done
    /\ bdRet.err # NilError
    /\ trace' = Append(trace, Event("return", idx, "", NoPath, <<>>))
    /\ JobReturns(WrapError("failed to bulk download AAC chunks", entry.ProgramName, bdRet.err))
    /\ UNCHANGED <<resolverVars, fs, dirs, unwritable, fdLimit, openRes, bdVars, ccVars,
                   scheduleFilePath, schedule>>

\* Lines 109-113: bulkDownload failed.
EjDownloadFail ==
    /\ pc = "done"
    /\ ej.stage = "download"
    /\ bdRet.done
    /\ bdRet.err # NilError
    /\ EjReturnDeferred(WrapError("failed to bulk download AAC chunks", entry.ProgramName,
                                  bdRet.err))

\* Lines 114-123: the output directory is missing and cannot be made.
EjMkdirAllFail ==
    /\ pc = "done"
    /\ ej.stage = "download"
    /\ bdRet.done
    /\ bdRet.err = NilError
    /\ DirPath(ej.outputDir) \notin dirs
    /\ EjReturnDeferred(WrapError("failed to create output directory", NoProgram,
                                  PathError("mkdir", DirPath(ej.outputDir))))

\* Lines 114-129: the output directory is there, or is made; the output path
\* is built and concatAACFiles is called.
EjConcat ==
    /\ pc = "done"
    /\ ej.stage = "download"
    /\ bdRet.done
    /\ bdRet.err = NilError
    /\ dirs' = dirs \cup {DirPath(ej.outputDir)}
    /\ trace' = IF DirPath(ej.outputDir) \in dirs THEN trace
                ELSE Append(trace, Event("mkdirall", idx, "", DirPath(ej.outputDir), <<>>))
    /\ CallConcat
    /\ UNCHANGED <<resolverVars, fs, unwritable, fdLimit, openRes, bdVars, scheduleFilePath, schedule, idx, jobs>>

\* EjConcatFail ending the process (log.Fatalf) instead of returning.
EjConcatFail_Fatal ==
    /\ pc = "done"
    /\ ej.stage = "assemble"
    /\ ccRet.done
    /\ ccRet.err # NilError
    /\ trace' = Append(trace, Event("fatal", -1, "failed to concatenate AAC files", NoPath, <<>>))
    /\ pc' = "fatal"
    /\ UNCHANGED <<resolverVars, fs, dirs, unwritable, fdLimit, openRes, bdVars, ccVars, mainVars>>

\* Lines 129-131: concatAACFiles failed.
EjConcatFail ==
    /\ pc = "done"
    /\ ej.stage = "assemble"
    /\ ccRet.done
    /\ ccRet.err # NilError
    /\ EjReturnDeferred(WrapError("failed to concatenate AAC files", entry.ProgramName,
                                  ccRet.err))

\* Lines 129-134: the recording is saved.
EjDone ==
    /\ pc = "done"
    /\ ej.stage = "assemble"
    /\ ccRet.done
    /\ ccRet.err = NilError
    /\ EjReturnDeferred(NoJobError)

-----------------------------------------------------------------------------
(* FindProgramTitle (internal/program.go, lines 77-108) *)

\* The letters, for strings.EqualFold on ASCII text.
UpperLetters ==
    <<"A", "B", "C", "D", "E", "F", "G", "H", "I", "J", "K", "L", "M", "N", "O", "P", "Q", "R",
      "S", "T", "U", "V", "W", "X", "Y", "Z">>
LowerLetters ==
    <<"a", "b", "c", "d", "e", "f", "g", "h", "i", "j", "k", "l", "m", "n", "o", "p", "q", "r",
      "s", "t", "u", "v", "w", "x", "y", "z">>

Fold(c) ==
    IF \E k \in 1..Len(UpperLetters) : UpperLetters[k] = c
    THEN LowerLetters[CHOOSE k \in 1..Len(UpperLetters) : UpperLetters[k] = c]
    ELSE c

\* strings.EqualFold(s, t)
EqualFold(s, t) == Len(s) = Len(t) /\ \A k \in 1..Len(s) : Fold(s[k]) = Fold(t[k])

\* startTime.Format("1504")
Format1504(t) ==
    ZeroPad(Decimal(HourOf(t)), FieldWidth) \o ZeroPad(Decimal(MinuteOf(t)), FieldWidth)

\* What FindProgramTitle returns.
NotFound(msg) == [title |-> "", err |-> msg]
Found(title) == [title |-> title, err |-> "nil"]

\* Lines 91-103: the program starts at the target time on the target day.
\* A start timestamp that does not parse is skipped.
ProgMatches_AnyDay(prog, time, day) ==
    \E startTime \in {ParseInLocation20060102150405(prog.Ft, Tokyo)} :
        /\ startTime.ok
        /\ Format1504(startTime.t) = time

ProgMatches(prog, time, day) ==
    \E startTime \in {ParseInLocation20060102150405(prog.Ft, Tokyo)} :
        /\ startTime.ok
        /\ Format1504(startTime.t) = time
        /\ EqualFold(SubSeq(WeekdayString[Weekday(startTime.t) + 1], 1, 3), day)

\* Lines 89-104: the loop over the programs of one station.
RECURSIVE FindInProgs(_, _, _)
FindInProgs(progs, time, day) ==
    IF progs = <<>> THEN NotFound("program not found")
    ELSE IF ProgMatches(Head(progs), time, day) THEN Found(Head(progs).Title)
    ELSE FindInProgs(Tail(progs), time, day)

\* Lines 88-107: the loop over the stations.
RECURSIVE FindInStations(_, _, _)
FindInStations(stations, time, day) ==
    IF stations = <<>> THEN NotFound("program not found")
    ELSE LET r == FindInProgs(Head(stations), time, day)
         IN  IF r.err = "nil" THEN r ELSE FindInStations(Tail(stations), time, day)

\* FindProgramTitle(programData, targetTime, targetDayOfWeek).  Lines 83-86:
\* time.LoadLocation("Asia/Tokyo") succeeds, as it did in the package's init()
\* (timecalc.go, lines 10-17), without which the process does not run.
FindProgramTitle(data, time, day) ==
    IF ~data.wellFormed THEN NotFound("failed to unmarshal program guide")
    ELSE FindInStations(data.stations, time, day)

\* One call FindProgramTitle(programData, targetTime, targetDayOfWeek).
Find ==
    /\ pc = "idle"
    /\ Len(found) < MaxCalls
    /\ found' = Append(found, FindProgramTitle(programData, targetTime, targetDayOfWeek))
    /\ UNCHANGED <<DayOfWeekMap, JST, programData, targetTime, targetDayOfWeek, entry, now,
                   results, pc, envVars, bdVars, ccVars, mainVars>>

-----------------------------------------------------------------------------
(* main (program_test.go, lines 182-195) *)

\* MainSkip leaving the loop.
MainSkip_Break ==
    /\ pc = "main_loop"
    /\ idx < Len(schedule)
    /\ \E e \in {schedule[idx + 1]} : \E r \in {CalculateRecentPastRunTime(e, now)} :
           /\ r.err # NoError
           /\ entry' = e
           /\ results' = Append(results, r)
           /\ trace' = Append(trace, Event("resolve", idx, "", NoPath, <<>>))
           /\ idx' = Len(schedule)
    /\ UNCHANGED <<DayOfWeekMap, JST, findVars, now, pc, fs, dirs, unwritable, fdLimit, openRes, bdVars,
                   ccVars, scheduleFilePath, schedule, ej, jobs>>

\* Lines 183-188: the resolver returns an error; the entry is logged and
\* the loop goes on.
MainSkip ==
    /\ pc = "main_loop"
    /\ idx < Len(schedule)
    /\ \E e \in {schedule[idx + 1]} : \E r \in {CalculateRecentPastRunTime(e, now)} :
           /\ r.err # NoError
           /\ entry' = e
           /\ results' = Append(results, r)
           /\ trace' = Append(trace, Event("resolve", idx, "", NoPath, <<>>))
           /\ idx' = idx + 1
    /\ UNCHANGED <<DayOfWeekMap, JST, findVars, now, pc, fs, dirs, unwritable, fdLimit, openRes, bdVars,
                   ccVars, scheduleFilePath, schedule, ej, jobs>>

\* Lines 183-190: the resolver returns an occurrence; ExecuteJob is called
\* with it and the output directory "output".
MainExecuteJob ==
    /\ pc = "main_loop"
    /\ idx < Len(schedule)
    /\ \E e \in {schedule[idx + 1]} : \E r \in {CalculateRecentPastRunTime(e, now)} :
           /\ r.err = NoError
           /\ entry' = e
           /\ results' = Append(results, r)
           /\ trace' = trace \o <<Event("resolve", idx, "", NoPath, <<>>),
                                  Event("job", idx, "", NoPath, <<>>)>>
           /\ ej' = [stage |-> "started", pastTime |-> r.t, outputDir |-> OutputDir,
                     chunklist |-> <<>>, tempDir |-> ""]
    /\ pc' = "ej_auth"
    /\ UNCHANGED <<DayOfWeekMap, JST, findVars, now, fs, dirs, unwritable, fdLimit, openRes, bdVars,
                   ccVars, scheduleFilePath, schedule, idx, jobs>>

\* Line 195: the schedule is exhausted.
MainExit ==
    /\ pc = "main_loop"
    /\ idx = Len(schedule)
    /\ pc' = "main_done"
    /\ UNCHANGED <<resolverVars, envVars, bdVars, ccVars, mainVars>>

-----------------------------------------------------------------------------
(* main before its loop (internal/program_test.go, lines 147-180), with      *)
(* GetScheduleConfigPath (internal/config.go) and LoadSchedule               *)
(* (src/unnamed/part_003)                                                     *)

\* The application's directory under the configuration home, and the
\* schedule file GetScheduleConfigPath names in it.
ConfigDir == <<<<".config">>, <<"radikoRecScheduler">>>>
DefaultSchedulePath == Append(ConfigDir, <<"schedule.json">>)

\* Line 172: "schedule.json", relative to the working directory.
CwdSchedulePath == <<<<"schedule.json">>>>

\* Errors: those of the os package (*PathError) and of encoding/json, and
\* those fmt.Errorf makes with %w around another error.
NoLoadError == [kind |-> "nil", msg |-> "", wrapped |-> <<>>]
ErrNotExist == [kind |-> "PathError", msg |-> "no such file or directory", wrapped |-> <<>>]
SyntaxError == [kind |-> "SyntaxError", msg |-> "invalid character", wrapped |-> <<>>]
WrapErrorf(msg, err) == [kind |-> "wrapError", msg |-> msg, wrapped |-> <<err>>]

\* os.IsNotExist(err): it looks inside the error types of the os package
\* only, never inside an error made by fmt.Errorf.
IsNotExist(err) == err.kind = "PathError" /\ err.msg = "no such file or directory"

\* A schedule file: its text parses to a list of entries, or does not parse.
ScheduleFile(entries) == <<[valid |-> TRUE, entries |-> entries]>>
BadScheduleFile == <<[valid |-> FALSE, entries |-> <<>>]>>

\* LoadSchedule(filePath): the entries, or the wrapped error of os.ReadFile or
\* of json.Unmarshal.
LoadSchedule(filePath) ==
    IF ~Exists(filePath)
    THEN [entries |-> <<>>, err |-> WrapErrorf("error reading schedule file", ErrNotExist)]
    ELSE IF ~fs[filePath][1].valid
         THEN [entries |-> <<>>, err |-> WrapErrorf("error parsing JSON", SyntaxError)]
         ELSE [entries |-> fs[filePath][1].entries, err |-> NoLoadError]

\* log.Fatalf: the message is logged and the process exits.
Fatal(msg) == Event("fatal", -1, msg, NoPath, <<>>)

\* Lines 155-160, config.go 27-30: the default of the -file flag cannot be
\* computed because the application's directory cannot be made.
MainFlagFail ==
    /\ pc = "main_flag"
    /\ ConfigDir \notin dirs
    /\ DirOf(ConfigDir) \in unwritable
    /\ trace' = Append(trace, Fatal("Failed to get default schedule config path"))
    /\ pc' = "fatal"
    /\ UNCHANGED <<resolverVars, fs, dirs, unwritable, fdLimit, openRes, bdVars, ccVars, mainVars>>

\* Lines 155-162: the application's directory is made if missing, and the
\* flag holds the path given with -file, or the default path when none is
\* given (file = NoPath).
MainFlag(file) ==
    /\ pc = "main_flag"
    /\ ConfigDir \in dirs \/ DirOf(ConfigDir) \notin unwritable
    /\ dirs' = dirs \cup {DirOf(ConfigDir), ConfigDir}
    /\ scheduleFilePath' = IF file = NoPath THEN DefaultSchedulePath ELSE file
    /\ trace' = Append(trace, Event("flag", -1, "", file, <<>>))
    /\ pc' = "main_load"
    /\ UNCHANGED <<resolverVars, fs, unwritable, fdLimit, openRes, bdVars, ccVars, schedule, idx,
                   ej, jobs>>

\* Lines 164, 182: the schedule is loaded from the path of the flag.
MainLoad ==
    /\ pc = "main_load"
    /\ \E r \in {LoadSchedule(scheduleFilePath)} :
          /\ r.err = NoLoadError
          /\ schedule' = r.entries
    /\ trace' = Append(trace, Event("load", -1, "", scheduleFilePath, <<>>))
    /\ pc' = "main_loop"
    /\ UNCHANGED <<resolverVars, fs, dirs, unwritable, fdLimit, openRes, bdVars, ccVars,
                   scheduleFilePath, idx, ej, jobs>>

\* Lines 164-180: the load fails.  When os.IsNotExist holds of the error and
\* the path is the default one, "schedule.json" of the working directory is
\* loaded instead (fatal when that fails too); otherwise the failure is
\* fatal.
MainLoadFail ==
    /\ pc = "main_load"
    /\ \E r \in {LoadSchedule(scheduleFilePath)} :
          /\ r.err # NoLoadError
          /\ IF IsNotExist(r.err) /\ scheduleFilePath = DefaultSchedulePath
             THEN /\ scheduleFilePath' = CwdSchedulePath
                  /\ \E r2 \in {LoadSchedule(CwdSchedulePath)} :
                        IF r2.err = NoLoadError
                        THEN /\ schedule' = r2.entries
                             /\ trace' = trace \o
                                   <<Event("load", -1, "", scheduleFilePath, <<>>),
                                     Event("load", -1, "", CwdSchedulePath, <<>>)>>
                             /\ pc' = "main_loop"
                        ELSE /\ schedule' = schedule
                             /\ trace' = trace \o
                                   <<Event("load", -1, "", scheduleFilePath, <<>>),
                                     Event("load", -1, "", CwdSchedulePath, <<>>),
                                     Fatal("Failed to load schedule from XDG path and current directory")>>
                             /\ pc' = "fatal"
             ELSE /\ scheduleFilePath' = scheduleFilePath
                  /\ schedule' = schedule
                  /\ trace' = trace \o <<Event("load", -1, "", scheduleFilePath, <<>>),
                                          Fatal("Failed to load schedule")>>
                  /\ pc' = "fatal"
    /\ UNCHANGED <<resolverVars, fs, dirs, unwritable, fdLimit, openRes, bdVars, ccVars, idx, ej,
                   jobs>>

-----------------------------------------------------------------------------
(* A run of main *)

MaxEntries == 2           \* longest schedule
MaxJobSegments == 2       \* longest segment list the streaming session returns

\* Names as the code handles them, character by character.
TestProgram == <<"T", "e", "s", "t", " ", "P", "r", "o", "g", "r", "a", "m">>
DottedProgram == <<"x", "/", ".", ".", "/", "y">>
ST1 == <<"S", "T", "1">>

\* Schedule entries: the one of the tests; one with an unmapped day; one whose
\* start time carries a fraction; one whose program name holds separators.
RunEntryInputs ==
    { [ProgramName |-> TestProgram, DayOfWeek |-> "ka",
       StartTime |-> <<"1", "0", "0", "0", "0", "0">>, StationID |-> ST1],
      [ProgramName |-> TestProgram, DayOfWeek |-> "Invalid",
       StartTime |-> <<"1", "0", "0", "0", "0", "0">>, StationID |-> ST1],
      [ProgramName |-> TestProgram, DayOfWeek |-> "ka",
       StartTime |-> <<"1", "0", "0", "0", "0", "0", ".", "5">>, StationID |-> ST1],
      [ProgramName |-> DottedProgram, DayOfWeek |-> "ka",
       StartTime |-> <<"1", "0", "0", "0", "0", "0">>, StationID |-> ST1] }

\* time.Now().In(JST): Tuesday 2026-03-31 10:00:00.
RunNow == [isZero |-> FALSE, unix |-> ((FirstNowDay + 2) * SecPerDay + 10 * 3600) * TicksPerSecond,
           loc |-> Tokyo]

\* Segment lists: of distinct URIs; a URI no request can be built from comes
\* last.
ChunklistInputs ==
    {l \in SeqUpTo(URLInputs, MaxJobSegments) :
        \A k \in 1..Len(l) : (k < Len(l) => ValidURL(l[k])) /\ (k > 1 => l[k] # l[k - 1])}

\* The segment lists of a run over several entries: none, the list of the
\* tests (part_002, lines 78-81), one no request can be built from.
RunChunklistInputs ==
    {<<>>, <<"http://mock.chunk/chunk1.aac", "http://mock.chunk/chunk2.aac">>, <<"http://[bad">>}

\* What the server answers: one of two bodies, or an error status.
JobAnswerInputs ==
    { [status |-> StatusOK, body |-> Body(1)], [status |-> StatusOK, body |-> Body(2)],
      [status |-> 500, body |-> <<>>] }

RunAnswerInputs == {[status |-> StatusOK, body |-> Body(1)], [status |-> 500, body |-> <<>>]}

\* The names os.MkdirTemp draws from: it returns one that is not in use.
TempDirNames == <<TempDir, "radigo-chunks-2", "radigo-chunks-3", "radigo-chunks-4">>
FreshTempDir ==
    TempDirNames[CHOOSE k \in 1..Len(TempDirNames) :
                    /\ DirPath(TempDirNames[k]) \notin dirs
                    /\ \A j \in 1..(k - 1) : DirPath(TempDirNames[j]) \in dirs]

\* The working directory.
WorkDir == <<>>

\* The output directory before the run: missing, there, there and not
\* writable.
RunDirInputs ==
    { [dirs |-> {WorkDir}, deny |-> {}], [dirs |-> {WorkDir, DirPath(OutputDir)}, deny |-> {}],
      [dirs |-> {WorkDir, DirPath(OutputDir)}, deny |-> {DirPath(OutputDir)}] }

\* Limits on open files: one that a second segment exhausts, one that a
\* second input file exhausts, one that is never reached.
NoFdLimit == 2 * MaxSegments + 2
JobFdLimitInputs == {MaxJobSegments - 1, MaxJobSegments, NoFdLimit}

\* The process before main's loop, but for the schedule and what surrounds
\* the process.
MainStart ==
    /\ DayOfWeekMap = DayOfWeekMapInit
    /\ JST = Tokyo
    /\ FindIdle
    /\ entry = [ProgramName |-> <<>>, DayOfWeek |-> "", StartTime |-> <<>>, StationID |-> <<>>]
    /\ now = RunNow
    /\ results = <<>>
    /\ pc = "main_loop"
    /\ scheduleFilePath = DefaultSchedulePath
    /\ fs = NoFiles
    /\ openRes = {}
    /\ trace = <<>>
    /\ BdIdle
    /\ CcIdle
    /\ idx = 0
    /\ ej = NoJob
    /\ jobs = <<>>

\* One call of ExecuteJob: main over a schedule of one entry.
InitJob ==
    /\ MainStart
    /\ schedule \in [1..1 -> RunEntryInputs]
    /\ \E d \in RunDirInputs : dirs = d.dirs /\ unwritable = d.deny
    /\ fdLimit \in JobFdLimitInputs

\* What surrounds a run over several entries: no output directory; one, and
\* a second input file exhausts the open files; one that is not writable,
\* and a second segment exhausts the open files.
RunEnvInputs ==
    { [dirs |-> {WorkDir}, deny |-> {}, fdLimit |-> NoFdLimit],
      [dirs |-> {WorkDir, DirPath(OutputDir)}, deny |-> {}, fdLimit |-> 2],
      [dirs |-> {WorkDir, DirPath(OutputDir)}, deny |-> {DirPath(OutputDir)}, fdLimit |-> 1] }

InitRun ==
    /\ MainStart
    /\ schedule \in SeqUpTo(RunEntryInputs, MaxEntries)
    /\ \E e \in RunEnvInputs : dirs = e.dirs /\ unwritable = e.deny /\ fdLimit = e.fdLimit

EjMkdirTempFresh == EjMkdirTemp(FreshTempDir)

Download ==
    \/ BdReturn
    \/ BdNewRequestFail
    \/ BdNewRequest
    \/ BdDoFail
    \/ BdBadStatus
    \/ BdCreateFail
    \/ BdCreate
    \/ BdCopyFail
    \/ BdCopy

Job ==
    \/ EjAuthorizeFail
    \/ EjAuthorize
    \/ EjPlaylistFail
    \/ EjPlaylist
    \/ EjChunklistFail
    \/ EjMkdirTempFail
    \/ EjMkdirTempFresh
    \/ EjDownloadFail
    \/ EjMkdirAllFail
    \/ EjConcat
    \/ EjConcatFail
    \/ EjDone

NextMain ==
    \/ MainSkip
    \/ MainExecuteJob
    \/ MainExit

JobChunklist == \E chunklist \in ChunklistInputs : EjChunklist(chunklist)
JobAnswer == \E r \in JobAnswerInputs : BdDo(r.status, r.body)

NextJob == NextMain \/ Job \/ JobChunklist \/ Download \/ JobAnswer \/ NextConcat

SpecJob == InitJob /\ [][NextJob]_vars

RunChunklist == \E chunklist \in RunChunklistInputs : EjChunklist(chunklist)
RunAnswer == \E r \in RunAnswerInputs : BdDo(r.status, r.body)

NextRun == NextMain \/ Job \/ RunChunklist \/ Download \/ RunAnswer \/ NextConcat

SpecRun == InitRun /\ [][NextRun]_vars

\* Every call returns: a step that can be taken is taken.
SpecRunFair == SpecRun /\ WF_vars(NextRun)

\* A path given with -file.
CustomSchedulePath == <<<<"custom.json">>>>

\* The flag: absent, or naming the custom path.
FlagInputs == {NoPath, CustomSchedulePath}

\* What a schedule file holds: the entry of the tests, or an entry with an
\* unmapped day.
ScheduleInputs ==
    { <<e>> : e \in { f \in RunEntryInputs : f.ProgramName = TestProgram
                                             /\ Len(f.StartTime) = 6 } }

\* The schedule files there are: for each of the default, the working
\* directory's and the custom path, none, one that parses or (at the default
\* path) one that does not.
LoadFsInputs ==
    { [q \in P |-> IF q = DefaultSchedulePath THEN d ELSE ScheduleFile(c)] :
        P \in SUBSET {DefaultSchedulePath, CwdSchedulePath, CustomSchedulePath},
        d \in {BadScheduleFile} \cup {ScheduleFile(x) : x \in ScheduleInputs},
        c \in ScheduleInputs }

\* What surrounds the process: as in a run, or a configuration home in which
\* nothing can be made.
LoadEnvInputs ==
    RunEnvInputs \cup {[dirs |-> {WorkDir}, deny |-> {DirOf(ConfigDir)}, fdLimit |-> NoFdLimit]}

\* The process at the start of main.
InitLoad ==
    /\ DayOfWeekMap = DayOfWeekMapInit
    /\ JST = Tokyo
    /\ FindIdle
    /\ entry = [ProgramName |-> <<>>, DayOfWeek |-> "", StartTime |-> <<>>, StationID |-> <<>>]
    /\ now = RunNow
    /\ results = <<>>
    /\ pc = "main_flag"
    /\ fs \in LoadFsInputs
    /\ \E e \in LoadEnvInputs : dirs = e.dirs /\ unwritable = e.deny /\ fdLimit = e.fdLimit
    /\ openRes = {}
    /\ trace = <<>>
    /\ BdIdle
    /\ CcIdle
    /\ MainIdle

MainFlagGiven == \E file \in FlagInputs : MainFlag(file)

NextLoad == MainFlagFail \/ MainFlagGiven \/ MainLoad \/ MainLoadFail \/ NextRun

SpecLoad == InitLoad /\ [][NextLoad]_vars

\* Programs of a guide: the two of the tests (moved to 2026: Monday 12
\* January 18:00, Tuesday 13 January 03:00), one more on Monday at 18:00, one
\* whose start carries a fraction, one whose start is no timestamp, one on a
\* day the month does not have.
Chars1800 == <<"1", "8", "0", "0">>
Ft20260112 == <<"2", "0", "2", "6", "0", "1", "1", "2">>
ProgMon == [Ft |-> Ft20260112 \o Chars1800 \o <<"0", "0">>, Title |-> "After 6 Junction"]
ProgTue ==
    [Ft |-> <<"2", "0", "2", "6", "0", "1", "1", "3", "0", "3", "0", "0", "0", "0">>,
     Title |-> "Tuesday JUNK"]
ProgMon2 == [Ft |-> Ft20260112 \o Chars1800 \o <<"0", "0">>, Title |-> "Second"]
ProgFraction == [Ft |-> Ft20260112 \o Chars1800 \o <<"0", "0", ".", "5">>, Title |-> "Fraction"]
ProgNoTime == [Ft |-> <<"1", "8", "0", "0">>, Title |-> "No timestamp"]
ProgNoDay ==
    [Ft |-> <<"2", "0", "2", "6", "0", "2", "3", "0">> \o Chars1800 \o <<"0", "0">>,
     Title |-> "30 February"]

MaxStations == 2

StationInputs ==
    { <<>>, <<ProgMon, ProgTue>>, <<ProgNoTime, ProgMon2>>, <<ProgNoDay, ProgFraction>>, <<ProgTue>> }

GuideInputs == {MalformedGuide} \cup { Guide(st) : st \in SeqUpTo(StationInputs, MaxStations) }

TargetTimeInputs == { Chars1800, <<"0", "3", "0", "0">>, <<"1", "9", "0", "0">> }
TargetDayInputs ==
    { <<"M", "o", "n">>, <<"m", "O", "N">>, <<"T", "u", "e">>, <<"F", "r", "i">>,
      <<"M", "o", "n", "d", "a", "y">> }

InitFind ==
    /\ DayOfWeekMap = DayOfWeekMapInit
    /\ JST = Tokyo
    /\ entry = [ProgramName |-> <<>>, DayOfWeek |-> "", StartTime |-> <<>>, StationID |-> <<>>]
    /\ now = RunNow
    /\ results = <<>>
    /\ programData \in GuideInputs
    /\ targetTime \in TargetTimeInputs
    /\ targetDayOfWeek \in TargetDayInputs
    /\ found = <<>>
    /\ PipelineIdle

NextFind == Find

SpecFind == InitFind /\ [][NextFind]_vars

\* The staged names of successive segments, from an index on: the names of
\* MaxNames segments are computed in a list long enough to hold them.  The
\* indices are the first ones and those around each power of ten up to the
\* width of the name.
MaxNames == 2
NameIndexInputs == (0..40) \cup {98, 99, 998, 999, 9998, 9999}

InitName ==
    /\ ResolverIdle
    /\ pc = "bd_name"
    /\ fs = NoFiles
    /\ dirs = {DirPath(TempDir)}
    /\ unwritable = {}
    /\ fdLimit = NoFdLimit
    /\ openRes = {}
    /\ trace = <<>>
    /\ i \in NameIndexInputs
    /\ urls = [k \in 1..(i + MaxNames) |-> "http://mock.chunk/chunk1.aac"]
    /\ destDir = TempDir
    /\ resp = NoResponse
    /\ downloadedFiles = <<>>
    /\ bdRet = NoReturn
    /\ CcIdle
    /\ MainIdle

NextName == BdName

SpecName == InitName /\ [][NextName]_vars

\* Entries whose station id or program name holds the separator of the
\* output file name (JOAK-FM is a station id of the service), and one with an
\* unmapped day.
JOAK == <<"J", "O", "A", "K">>
News == <<"N", "e", "w", "s">>
OutputEntryInputs ==
    { [ProgramName |-> <<"F", "M", "-">> \o News, DayOfWeek |-> "ka",
       StartTime |-> <<"1", "0", "0", "0", "0", "0">>, StationID |-> JOAK],
      [ProgramName |-> News, DayOfWeek |-> "ka",
       StartTime |-> <<"1", "0", "0", "0", "0", "0">>, StationID |-> JOAK \o <<"-", "F", "M">>],
      [ProgramName |-> News, DayOfWeek |-> "Invalid",
       StartTime |-> <<"1", "0", "0", "0", "0", "0">>, StationID |-> JOAK] }

\* A run over two such entries.
InitOutputs ==
    /\ MainStart
    /\ schedule \in [1..MaxEntries -> OutputEntryInputs]
    /\ \E e \in RunEnvInputs : dirs = e.dirs /\ unwritable = e.deny /\ fdLimit = e.fdLimit

SpecOutputs == InitOutputs /\ [][NextRun]_vars

Init == InitResolve \/ InitDownload \/ InitConcat \/ InitJob \/ InitRun \/ InitLoad \/ InitFind \/ InitName \/ InitOutputs

Next == NextResolve \/ NextDownload \/ NextConcat \/ NextJob \/ NextRun \/ NextLoad \/ NextFind \/ NextName

Spec == Init /\ [][Next]_vars

-----------------------------------------------------------------------------
(* Properties of the resolver *)

\* A six-digit 24-hour HHMMSS value.
WellFormedHHMMSS(s) ==
    /\ Len(s) = 6
    /\ \A k \in 1..6 : s[k] \in Digit
    /\ DigitVal(s[1]) * 10 + DigitVal(s[2]) <= 23
    /\ DigitVal(s[3]) * 10 + DigitVal(s[4]) <= 59
    /\ DigitVal(s[5]) * 10 + DigitVal(s[6]) <= 59

\* Its second of the day.
ClockOfHHMMSS(s) ==
    (DigitVal(s[1]) * 10 + DigitVal(s[2])) * 3600
      + (DigitVal(s[3]) * 10 + DigitVal(s[4])) * 60
      + DigitVal(s[5]) * 10 + DigitVal(s[6])

\* The weekday a day-of-week key stands for.
WeekdayOfKey(k) == DayOfWeekMapInit[k]

ValidEntry == entry.DayOfWeek \in DayKeys /\ WellFormedHHMMSS(entry.StartTime)

\* The day of now in now's own location, and the instant of the entry's
\* weekday and start time in the (Sunday to Saturday) week of that day.
NowLocalDay == (now.unix + (now.loc.offset - 9 * 3600) * TicksPerSecond) \div TicksPerDay
WeekCandidateUnix ==
    (NowLocalDay - (NowLocalDay % 7) + WeekdayOfKey(entry.DayOfWeek)) * TicksPerDay
      + ClockOfHHMMSS(entry.StartTime) * TicksPerSecond

\* C1: for an entry with a mapped day of week and a well-formed start time and
\* now in the reference timezone, the resolver returns r with
\* now - 7 days < r <= now, on the entry's weekday at the entry's start time.
C1_MostRecentOccurrence ==
    \A k \in 1..Len(results) :
        (ValidEntry /\ now.loc = Tokyo) =>
            LET r == results[k].t
            IN  /\ ~r.isZero
                /\ now.unix - 7 * TicksPerDay < r.unix
                /\ r.unix <= now.unix
                /\ (r.unix \div TicksPerDay) % 7 = WeekdayOfKey(entry.DayOfWeek)
                /\ r.unix % TicksPerDay = ClockOfHHMMSS(entry.StartTime) * TicksPerSecond

\* C1 witness: a resolved occurrence in the week before now's, in the month
\* before now's (the candidate was after now and the step back crossed the
\* first of April).
C1_Witness ==
    /\ Len(results) >= 1
    /\ ValidEntry
    /\ now.loc = Tokyo
    /\ results[1].err = NoError
    /\ MonthOf(now) = 4
    /\ MonthOf(results[1].t) = 3
    /\ results[1].t.unix < now.unix - 6 * TicksPerDay

\* C2: a candidate equal to now is returned as it is (the result is now), a
\* candidate after now is returned moved back by exactly 7 days, a candidate
\* before now is returned unchanged.
C2_CandidateRule ==
    \A k \in 1..Len(results) :
        ValidEntry =>
            LET r == results[k].t
                c == WeekCandidateUnix
            IN  /\ c = now.unix => r.unix = now.unix
                /\ c > now.unix => r.unix = c - 7 * TicksPerDay
                /\ c < now.unix => r.unix = c

\* C2 witness: the candidate is exactly now, and the resolver has answered.
C2_Witness ==
    /\ Len(results) >= 1
    /\ ValidEntry
    /\ WeekCandidateUnix = now.unix
    /\ results[1].t.unix = now.unix

\* C3: the resolver returns an error and the zero time when the day of week
\* is unmapped or the start time is not a well-formed six-digit HHMMSS value,
\* and no error for an entry with a mapped day and a well-formed start time.
C3_ErrorIffMalformed ==
    \A k \in 1..Len(results) :
        /\ ~ValidEntry => (results[k].err # NoError /\ results[k].t = ZeroTime)
        /\ ValidEntry => results[k].err = NoError

\* C4: every call on the same (entry, now) returns the same result or the
\* same error, and no call changes the package state the resolver reads.
C4_Pure ==
    /\ \A j, k \in 1..Len(results) : results[j] = results[k]
    /\ DayOfWeekMap = DayOfWeekMapInit
    /\ JST = Tokyo

\* C4 witness: the resolver has been called twice on one input.
C4_Witness ==
    /\ Len(results) >= 2
    /\ results[1] = CalculateRecentPastRunTime(entry, now)
    /\ results[2] = results[1]

-----------------------------------------------------------------------------
(* Properties of bulkDownload *)

Requests == SelectSeq(trace, LAMBDA e : e.op = "request")
Responses == SelectSeq(trace, LAMBDA e : e.op = "response")

BdSucceeded == bdRet.done /\ bdRet.err = NilError
BdFailed == bdRet.done /\ bdRet.err # NilError

\* Positions in the trace of the events of one kind for one index.
Positions(op, index) == {p \in 1..Len(trace) : trace[p].op = op /\ trace[p].index = index}

\* C5: a successful bulkDownload on n URIs returns n paths; the path at
\* position k is the file created for index k and holds exactly the body
\* fetched from the URI at position k.
C5_StagedInOrder ==
    BdSucceeded =>
        /\ Len(bdRet.files) = Len(urls)
        /\ \A n \in 1..Len(urls) :
              LET path == bdRet.files[n]
              IN  /\ \E p \in Positions("create", n - 1) : trace[p].path = path
                  /\ Exists(path)
                  /\ Len(Responses) >= n
                  /\ Responses[n].index = n - 1
                  /\ Responses[n].url = urls[n]
                  /\ fs[path] = Responses[n].data

\* C5 witness: a successful download of two or more segments whose first
\* two bodies differ though they came from the same URI.
C5_Witness ==
    /\ BdSucceeded
    /\ Len(urls) >= 2
    /\ urls[1] = urls[2]
    /\ fs[bdRet.files[1]] # fs[bdRet.files[2]]
    /\ fs[bdRet.files[2]] = <<>>

\* C6: requests go out in ascending index order, one at a time (the file of
\* a segment is created before the next request), and when bulkDownload fails
\* at segment k no request was made for an index above k.
C6_SequentialFailFast ==
    /\ \A n \in 1..Len(Requests) :
          /\ Requests[n].index = n - 1
          /\ Requests[n].url = urls[n]
    /\ \A n \in 1..(MaxSegments + 1) :
          \A p \in Positions("request", n) :
              \E q \in Positions("create", n - 1) : q < p
    /\ BdFailed =>
          /\ bdRet.err.index = i
          /\ \A n \in 1..Len(Requests) : Requests[n].index <= bdRet.err.index
          /\ Len(bdRet.files) = 0

\* C6 witness: a failure at a segment that is neither the first nor the last.
C6_Witness ==
    /\ BdFailed
    /\ bdRet.err.index >= 1
    /\ bdRet.err.index + 1 < Len(urls)
    /\ Len(Requests) = bdRet.err.index + 1

\* C7: every error bulkDownload returns carries the zero-based index of the
\* failing segment and that segment's URI.
C7_ErrorNamesIndexAndURI ==
    BdFailed =>
        /\ bdRet.err.index = i
        /\ bdRet.err.url = urls[i + 1]

-----------------------------------------------------------------------------
(* Properties of concatAACFiles *)

CcSucceeded == ccRet.done /\ ccRet.err = NilError
CcFailedWith(msg) == ccRet.done /\ ccRet.err.msg = msg

\* The contents the input files had when concatAACFiles was called, one after
\* the other.
RECURSIVE ContentsInOrder(_)
ContentsInOrder(files) ==
    IF files = <<>> THEN <<>>
    ELSE StagedBody(Head(files)) \o ContentsInOrder(Tail(files))

\* Input files opened or copied from, by index.
Touched == {trace[p].index : p \in {q \in 1..Len(trace) : trace[q].op \in {"open", "copy"}}}

\* C8: after a successful concatAACFiles the output holds the contents of the
\* input files, in the order of the list, and nothing else.
C8_Concatenation ==
    CcSucceeded =>
        /\ Exists(outputFile)
        /\ fs[outputFile] = ContentsInOrder(inputFiles)

\* C8 witness: success on three or more files given in an order other than
\* that of their names, the second of them repeated, over an output file that
\* was there before.
C8_Witness ==
    /\ CcSucceeded
    /\ Len(inputFiles) >= 3
    /\ inputFiles[1] = ChunkFilePath(TempDir, 2)
    /\ inputFiles[2] = ChunkFilePath(TempDir, 1)
    /\ inputFiles[3] = ChunkFilePath(TempDir, 1)
    /\ fs[outputFile] = <<2, 2, 1, 1>>

\* C9: when an input file cannot be opened concatAACFiles stops at the first
\* such file and returns an error naming it; no later input is opened or
\* copied, and what the earlier inputs put into the output stays there.
C9_StopsAtUnopenable ==
    CcFailedWith("failed to open input file") =>
        /\ ci < Len(inputFiles)
        /\ ccRet.err.path = inputFiles[ci + 1]
        /\ ~Exists(inputFiles[ci + 1]) \/ ci + 1 >= fdLimit
        /\ \A m \in 1..ci : Exists(inputFiles[m])
        /\ Touched = 0..(ci - 1)
        /\ Exists(outputFile)
        /\ fs[outputFile] = ContentsInOrder(SubSeq(inputFiles, 1, ci))

\* C9 witness: the failing file is neither the first nor the last, and the
\* output holds bytes of the earlier ones.
C9_Witness ==
    /\ CcFailedWith("failed to open input file")
    /\ ci >= 1
    /\ ci + 1 < Len(inputFiles)
    /\ ~Exists(inputFiles[ci + 1])
    /\ Exists(inputFiles[ci + 2])
    /\ Len(fs[outputFile]) >= 1

\* C10 as claimed: when the destination cannot be created concatAACFiles
\* returns "failed to create output file" before opening or reading any
\* input, and no output file exists afterwards.
C10_NoOutputAfterCreateFailure ==
    CcFailedWith("failed to create output file") =>
        /\ Touched = {}
        /\ ~Exists(outputFile)

\* C10 as amended: when the destination cannot be created concatAACFiles
\* returns "failed to create output file" before opening or reading any
\* input and leaves the file system as it was: it creates no output file, and
\* a file already at the output path stays there unmodified.
C10_CreateFailureChangesNothing ==
    [][ (~ccRet.done /\ ccRet'.done /\ ccRet'.err.msg = "failed to create output file") =>
            /\ pc = "cc_create"
            /\ trace = <<>>
            /\ trace' = <<>>
            /\ openRes' = {}
            /\ fs' = fs ]_vars

\* C10 witness: the destination could not be created, there were inputs, and
\* the file that was at the output path is still there.
C10_Witness ==
    /\ CcFailedWith("failed to create output file")
    /\ Len(inputFiles) >= 1
    /\ \A m \in 1..Len(inputFiles) : Exists(inputFiles[m])
    /\ Exists(outputFile)
    /\ fs[outputFile] = OldOutput

-----------------------------------------------------------------------------
(* Properties of ExecuteJob and of a run *)

\* The positions in the trace of the events of one kind.
PositionsOf(op) == {p \in 1..Len(trace) : trace[p].op = op}

\* The creations of an output file (by concatAACFiles).
OutputCreations == {p \in PositionsOf("create") : trace[p].index = -1}

\* C11: the assembler creates its destination exclusively: no creation of an
\* output file finds a file at the path and discards, overwrites or extends
\* its content.
C11_ExclusiveCreate ==
    \A p \in OutputCreations : trace[p].data = <<>>

\* The call of ExecuteJob in progress or last returned, and its output path.
JobCalled == ej.stage # "none"
JobOutputPath == OutputFilePath(ej.outputDir, entry, ej.pastTime)

\* bulkDownload failed in that call.
DownloadFailed == JobCalled /\ ej.stage # "started" /\ bdRet.done /\ bdRet.err # NilError

\* C12: when a segment download fails during ExecuteJob, concatAACFiles is
\* never called for the job and the job creates no file at its output path
\* (nor anywhere outside its workspace); the job returns the download error.
C12_NoArtifactAfterFailedDownload ==
    DownloadFailed =>
        /\ pc \notin {"cc_create", "cc_loop", "cc_copy"}
        /\ ~ccRet.done
        /\ OutputCreations = {}
        /\ PositionsOf("open") = {}
        /\ ~Exists(JobOutputPath)
        /\ \A f \in DOMAIN fs : Under(DirPath(ej.tempDir), f)
        /\ ej.stage = "returned" =>
              /\ jobs[Len(jobs)].err.msg = "failed to bulk download AAC chunks"
              /\ jobs[Len(jobs)].err.cause = bdRet.err

\* C12 witness: the job has returned after its second segment failed, the
\* first having been staged, and there is no output file.
C12_Witness ==
    /\ DownloadFailed
    /\ ej.stage = "returned"
    /\ bdRet.err.index = 1
    /\ PositionsOf("create") # {}
    /\ DirPath(OutputDir) \in dirs
    /\ ~Exists(JobOutputPath)

\* The workspace of the call, once made, and what is left of it.
WorkspaceMade == JobCalled /\ ej.tempDir # ""
WorkspaceLeft ==
    \/ DirPath(ej.tempDir) \in dirs
    \/ \E f \in DOMAIN fs : Under(DirPath(ej.tempDir), f)

\* The removals of the workspace, and those that succeeded.
Removals == {p \in PositionsOf("removeall") : trace[p].path = DirPath(ej.tempDir)}
RemovalSucceeded == \E p \in Removals : trace[p].data = <<TRUE>>

\* C13: once ExecuteJob has made its workspace, every return of it (success,
\* download failure, output directory not made, assembly failure) runs the
\* removal of the workspace, and when the removal succeeds neither the
\* workspace nor a staged file in it exists after the return.
C13_WorkspaceRemovedOnReturn ==
    (WorkspaceMade /\ ej.stage = "returned") =>
        /\ Removals # {}
        /\ RemovalSucceeded => ~WorkspaceLeft
        /\ jobs[Len(jobs)].err.msg \in
              {"nil", "failed to bulk download AAC chunks", "failed to create output directory",
               "failed to concatenate AAC files"}

\* C13 witness: the job failed in assembly after staging two files, and the
\* workspace is gone.
C13_Witness ==
    /\ WorkspaceMade
    /\ ej.stage = "returned"
    /\ jobs[Len(jobs)].err.msg = "failed to concatenate AAC files"
    /\ Len(bdRet.files) = 2
    /\ RemovalSucceeded
    /\ ~WorkspaceLeft

\* The stage an event belongs to: 1 authorize, 2 resolve playlist, 3 expand
\* segments, 4 download, 5 assemble; 0 for what belongs to none.
StageOfEvent(e) ==
    CASE e.op = "authorize" -> 1
      [] e.op = "playlist" -> 2
      [] e.op = "chunklist" -> 3
      [] e.op \in {"request", "response"} -> 4
      [] e.op = "create" -> (IF e.index >= 0 THEN 4 ELSE 5)
      [] e.op \in {"open", "copy"} -> 5
      [] OTHER -> 0

\* The stage whose failure a message of ExecuteJob reports; the workspace is
\* made after stage 3, the output directory after stage 4.
StageOfMessage(msg) ==
    CASE msg = "failed to authorize Radiko token" -> 1
      [] msg = "failed to get timeshift M3U8 playlist URI" -> 2
      [] msg = "failed to get chunklist from M3U8" -> 3
      [] msg = "failed to create temporary directory" -> 3
      [] msg = "failed to bulk download AAC chunks" -> 4
      [] msg = "failed to create output directory" -> 4
      [] msg = "failed to concatenate AAC files" -> 5
      [] OTHER -> 5

\* The events of the stages, in order.
StageEvents == SelectSeq(trace, LAMBDA e : StageOfEvent(e) > 0)
StagesSeen == {StageOfEvent(StageEvents[p]) : p \in 1..Len(StageEvents)}

\* C14: within one ExecuteJob the operations of the stages occur in the order
\* authorize, resolve playlist, expand segments, download, assemble, the
\* first three once each; an operation of a stage is invoked only after the
\* stage before it succeeded; a job that fails returns the error of the last
\* stage it entered, and it has invoked no operation of a later stage; after
\* its return (Done or Failed) the job does nothing more.
C14_StagesInOrder ==
    /\ LET ev == StageEvents
       IN  \A p \in 1..(Len(ev) - 1) :
              /\ StageOfEvent(ev[p]) <= StageOfEvent(ev[p + 1])
              /\ StageOfEvent(ev[p + 1]) <= 3 => StageOfEvent(ev[p]) < StageOfEvent(ev[p + 1])
    /\ \A k \in StagesSeen : k \in 2..3 => k - 1 \in StagesSeen
    /\ 4 \in StagesSeen => (3 \in StagesSeen /\ urls = ej.chunklist /\ ej.tempDir # "")
    /\ 5 \in StagesSeen => (3 \in StagesSeen /\ bdRet.done /\ bdRet.err = NilError
                            /\ inputFiles = bdRet.files)
    /\ Len(jobs) = Cardinality(PositionsOf("return"))
    /\ (JobCalled /\ ej.stage = "returned") =>
          LET err == jobs[Len(jobs)].err
          IN  /\ trace[Len(trace)].op = "return"
              /\ pc \in {"main_loop", "main_done"}
              /\ \A k \in StagesSeen : k <= StageOfMessage(err.msg)
              /\ err.msg \notin {"nil", "failed to concatenate AAC files"}
                    => OutputCreations = {}
              /\ err.msg = "failed to bulk download AAC chunks" => err.cause = bdRet.err
              /\ err.msg = "failed to concatenate AAC files" => err.cause = ccRet.err
              /\ err = NoJobError => ({1, 2, 3, 5} \subseteq StagesSeen /\ CcSucceeded)

\* C14 witness: a job that went through all five stages and is Done.
C14_Witness ==
    /\ JobCalled
    /\ ej.stage = "returned"
    /\ jobs[Len(jobs)].err = NoJobError
    /\ StagesSeen = 1..5
    /\ Len(inputFiles) = 2

\* The calls of the resolver made by the run, in order.
Resolves == SelectSeq(trace, LAMBDA e : e.op = "resolve")

\* The run has left the loop.
RunEnded == pc = "main_done"

\* The entries resolved so far are the first ones of the schedule, each once,
\* in order, and each resolved entry but the one in progress was skipped (on
\* a resolver error) or handed to ExecuteJob, which returned.
ResolvedInOrder ==
    /\ Len(Resolves) = Len(results)
    /\ Len(Resolves) <= Len(schedule)
    /\ \A n \in 1..Len(Resolves) :
          /\ Resolves[n].index = n - 1
          /\ results[n] = CalculateRecentPastRunTime(schedule[n], now)
    /\ idx \in {Len(Resolves), Len(Resolves) - 1}
    /\ \A n \in 1..Len(jobs) :
          /\ jobs[n].index < idx
          /\ results[jobs[n].index + 1].err = NoError
          /\ n > 1 => jobs[n - 1].index < jobs[n].index
    /\ \A n \in 1..idx :
          results[n].err = NoError => \E m \in 1..Len(jobs) : jobs[m].index = n - 1

\* C15: in a run over n entries every entry is resolved exactly once, in
\* schedule order, and whatever fails (the resolver, or ExecuteJob at any
\* stage) the run reaches the end of the schedule with all n entries
\* processed.
C15_EveryEntryProcessed ==
    /\ []ResolvedInOrder
    /\ <>(RunEnded /\ idx = Len(schedule) /\ Len(Resolves) = Len(schedule))

\* C15 witness: a run of two entries has ended; the job of the first failed,
\* the job of the second succeeded.
C15_Witness ==
    /\ RunEnded
    /\ Len(schedule) = 2
    /\ Len(jobs) = 2
    /\ jobs[1].err # NoJobError
    /\ jobs[2].err = NoJobError
    /\ jobs[2].index = 1

\* The entry is one the resolver is specified to reject: its day of week is
\* unmapped or its start time is not a six-digit HHMMSS value.
InvalidScheduleEntry(e) ==
    \/ e.DayOfWeek \notin DOMAIN DayOfWeekMapInit
    \/ ~WellFormedHHMMSS(e.StartTime)

\* The positions of the trace that belong to schedule entry n: from its
\* resolution up to the resolution of the next entry.
EntryPositions(n) ==
    LET starts == { p \in PositionsOf("resolve") : trace[p].index = n - 1 }
        later == { p \in PositionsOf("resolve") : trace[p].index > n - 1 }
    IN  { p \in 1..Len(trace) :
            /\ \E q \in starts : q <= p
            /\ \A q \in later : p < q }

\* C16: an entry whose day of week is unmapped or whose start time is
\* malformed is skipped completely: the run does nothing for it but resolve
\* it (no call of ExecuteJob, hence no authorization, playlist, download or
\* assembly operation, no workspace and no output file).
C16_InvalidEntrySkipped ==
    \A n \in 1..Len(schedule) :
        InvalidScheduleEntry(schedule[n]) =>
            /\ \A p \in EntryPositions(n) : trace[p].op = "resolve"
            /\ \A j \in 1..Len(jobs) : jobs[j].index # n - 1

\* The calls of ExecuteJob and their returns, in order.
CallEvents == SelectSeq(trace, LAMBDA e : e.op \in {"job", "return"})

\* A call is made only when the one before it has returned, and the calls
\* are those of successive entries.
OneJobAtATime ==
    /\ \A k \in 1..Len(CallEvents) :
          CallEvents[k].op = (IF k % 2 = 1 THEN "job" ELSE "return")
    /\ \A k \in 2..Len(CallEvents) :
          IF k % 2 = 0 THEN CallEvents[k].index = CallEvents[k - 1].index
                       ELSE CallEvents[k].index > CallEvents[k - 1].index
    /\ (ej.stage \notin {"none", "returned"}) <=> (Len(CallEvents) % 2 = 1)

\* A request is answered, or has failed, before the next one is sent.
OneRequestInFlight ==
    /\ \A p \in PositionsOf("response") :
          /\ p > 1
          /\ trace[p - 1].op = "request"
          /\ trace[p - 1].index = trace[p].index
    /\ \A p \in PositionsOf("request") : \A q \in PositionsOf("request") :
          (p < q /\ \A r \in PositionsOf("job") : ~(p < r /\ r < q)) =>
              trace[p].index < trace[q].index

\* The temporary workspaces there are, those a failed removal has left, and
\* the one of the job in progress.
Workspaces == { d \in dirs : \E k \in 1..Len(TempDirNames) : d = DirPath(TempDirNames[k]) }
LeftBehind == { trace[p].path : p \in { q \in PositionsOf("removeall") : trace[q].data = <<FALSE>> } }
OwnWorkspace ==
    IF ej.stage \notin {"none", "returned"} /\ ej.tempDir # ""
    THEN {DirPath(ej.tempDir)}
    ELSE {}

LastJob == jobs[Len(jobs)]
JobSucceeded == ej.stage = "returned" /\ jobs # <<>> /\ LastJob.err = NoJobError
JobEntry == schedule[LastJob.index + 1]
JobPastTime == results[LastJob.index + 1].t

\* The responses the streaming session gave to that call, in order.
JobResponses ==
    LET start == CHOOSE p \in PositionsOf("job") : \A q \in PositionsOf("job") : q <= p
    IN  SelectSeq(SubSeq(trace, start, Len(trace)), LAMBDA e : e.op = "response")

RECURSIVE BodiesInOrder(_)
BodiesInOrder(events) ==
    IF events = <<>> THEN <<>> ELSE Head(events).data \o BodiesInOrder(Tail(events))

\* The file directly in the output directory whose name is
\* "{pastTime as YYYYMMDDHHMMSS}-{station id}-{program name}.aac".
NamedOutputPath == Append(DirPath(OutputDir), OutputFileName(JobEntry, JobPastTime))

\* The responses are those of the segments of the list, one each, in order.
OneResponsePerSegment ==
    /\ Len(JobResponses) = Len(ej.chunklist)
    /\ \A k \in 1..Len(JobResponses) :
          /\ JobResponses[k].index = k - 1
          /\ JobResponses[k].url = ej.chunklist[k]

\* C18: when ExecuteJob returns without error, a file named
\* "{pastTime as YYYYMMDDHHMMSS}-{station id}-{program name}.aac" exists
\* directly in the output directory, and its content is the concatenation of
\* the response bodies of all segments in the order of the segment list.
C18_OutputNamedAndConcatenated ==
    JobSucceeded =>
        /\ Exists(NamedOutputPath)
        /\ OneResponsePerSegment
        /\ fs[NamedOutputPath] = BodiesInOrder(JobResponses)

\* The messages that name a stage of ExecuteJob.
StageMessages ==
    { "failed to authorize Radiko token", "failed to get timeshift M3U8 playlist URI",
      "failed to get chunklist from M3U8", "failed to create temporary directory",
      "failed to bulk download AAC chunks", "failed to create output directory",
      "failed to concatenate AAC files" }

\* The error wraps an underlying error and names a stage.
WrapsAndNamesStage(err) == err.msg \in StageMessages /\ err.cause # NilError

\* C19: every error returned by ExecuteJob, at every stage, wraps the
\* underlying error and is annotated with the name of the failing stage and
\* with the program name of the schedule entry.
C19_ErrorsNameStageAndProgram ==
    \A n \in 1..Len(jobs) :
        jobs[n].err # NoJobError =>
            /\ WrapsAndNamesStage(jobs[n].err)
            /\ jobs[n].err.program = schedule[jobs[n].index + 1].ProgramName

\* The positions of the trace that belong to the call of ExecuteJob made at
\* position p: from the call up to the next call.
JobSpan(p) ==
    { q \in p..Len(trace) : \A r \in PositionsOf("job") : ~(p < r /\ r <= q) }

\* C20: there is no retry: within one job authorize, resolve playlist and
\* expand segments are each invoked at most once, each segment index is
\* requested at most once, and no entry has its job started twice in a run
\* (a job that has failed is never started again).
C20_NoRetry ==
    /\ \A p \in PositionsOf("job") : \A q \in PositionsOf("job") :
          trace[p].index = trace[q].index => p = q
    /\ \A p \in PositionsOf("job") :
          LET span == JobSpan(p)
          IN  /\ \A op \in {"authorize", "playlist", "chunklist"} :
                    Cardinality({ q \in span : trace[q].op = op }) <= 1
              /\ \A q \in span : \A r \in span :
                    (/\ trace[q].op = "request"
                     /\ trace[r].op = "request"
                     /\ trace[q].index = trace[r].index) => q = r

\* C20 witness: a run of two entries has ended; the job of the first failed
\* on a segment request and the job of the second requested two segments.
C20_Witness ==
    /\ RunEnded
    /\ Len(jobs) = 2
    /\ jobs[1].err.msg = "failed to bulk download AAC chunks"
    /\ jobs[2].err = NoJobError
    /\ Cardinality({ q \in PositionsOf("request") : trace[q].index = 0 }) = 2
    /\ Cardinality(PositionsOf("request")) >= 3

\* concatAACFiles has returned from a call with no input file, and the job
\* that made the call is still the current one.
EmptyAssemblyReturned ==
    /\ ej.stage \in {"assemble", "returned"}
    /\ ccRet.done
    /\ inputFiles = <<>>

\* ExecuteJob has returned from a call that obtained a segment list, and the
\* list was empty.
EmptyJobReturned ==
    /\ ej.stage = "returned"
    /\ jobs # <<>>
    /\ ej.chunklist = <<>>
    /\ LastJob.err.msg \notin { "failed to authorize Radiko token",
                                "failed to get timeshift M3U8 playlist URI",
                                "failed to get chunklist from M3U8" }

\* The errors of ExecuteJob that come from the workspace, the output
\* directory or the destination not being creatable.
NotCreatableErrors ==
    { e \in {LastJob.err} :
        \/ e.msg \in {"failed to create temporary directory", "failed to create output directory"}
        \/ e.msg = "failed to concatenate AAC files" /\ e.cause.msg = "failed to create output file" }

\* C21: assembling zero segments has one outcome: a call of concatAACFiles
\* with no input file either cannot create its destination or leaves a
\* zero-length output file and returns no error; it is never rejected for
\* being empty.  Consequently ExecuteJob on an empty segment list ends
\* without error with a zero-length output file, unless its workspace, its
\* output directory or the destination could not be created.
C21_ZeroSegmentsYieldEmptyOutput ==
    /\ EmptyAssemblyReturned =>
          IF ccRet.err = NilError
          THEN Exists(outputFile) /\ fs[outputFile] = <<>>
          ELSE ccRet.err.msg = "failed to create output file" /\ ~CanCreate(outputFile)
    /\ EmptyJobReturned =>
          IF LastJob.err = NoJobError
          THEN /\ Exists(OutputFilePath(OutputDir, JobEntry, JobPastTime))
               /\ fs[OutputFilePath(OutputDir, JobEntry, JobPastTime)] = <<>>
          ELSE LastJob.err \in NotCreatableErrors

\* C21 witness: a job with an empty segment list has ended without error over
\* the output file of an earlier job, whose content it discarded.
C21_Witness ==
    /\ EmptyJobReturned
    /\ EmptyAssemblyReturned
    /\ LastJob.err = NoJobError
    /\ \E p \in OutputCreations : trace[p].data # <<>>
    /\ fs[outputFile] = <<>>

\* The -file flag was absent, or named a file, and main is past the loading
\* of the schedule (in its loop, at its end, or stopped by a fatal error).
FlagAbsent == \E p \in PositionsOf("flag") : trace[p].path = NoPath
FlagNamed(path) == \E p \in PositionsOf("flag") : trace[p].path = path
LoadOver == PositionsOf("flag") # {} /\ pc \notin {"main_flag", "main_load"}

\* The paths LoadSchedule was called with.
LoadedPaths == { trace[p].path : p \in PositionsOf("load") }

\* The program stopped with a fatal error.
Stopped == pc = "fatal"

\* With no flag and no schedule file at the default path, the schedule of the
\* working directory is loaded and its entries are processed.
FallbackTaken ==
    (/\ LoadOver
     /\ FlagAbsent
     /\ ~Exists(DefaultSchedulePath)
     /\ Exists(CwdSchedulePath)) =>
        /\ ~Stopped
        /\ CwdSchedulePath \in LoadedPaths
        /\ schedule = fs[CwdSchedulePath][1].entries
        /\ RunEnded => Len(Resolves) = Len(schedule)

\* With a custom path that names no file, the program stops with a fatal
\* error and the working directory is not tried.
CustomPathFatal ==
    (/\ LoadOver
     /\ FlagNamed(CustomSchedulePath)
     /\ ~Exists(CustomSchedulePath)) =>
        /\ Stopped
        /\ CwdSchedulePath \notin LoadedPaths
        /\ schedule = <<>>

\* C22: when no -file flag is given and schedule.json does not exist at the
\* default configuration path, the program loads schedule.json from the
\* working directory and processes its entries; when a custom -file path is
\* given and that file does not exist, the program stops with a fatal error
\* without trying the working directory.
C22_FallbackToWorkingDirectory == FallbackTaken /\ CustomPathFatal

-----------------------------------------------------------------------------
(* Properties of FindProgramTitle *)

\* The programs of the guide in document order, over all stations.
RECURSIVE DocumentOrder(_)
DocumentOrder(stations) ==
    IF stations = <<>> THEN <<>> ELSE Head(stations) \o DocumentOrder(Tail(stations))

\* The three-letter English weekday of the day of 2026 a timestamp
\* YYYYMMDDHHMMSS names (1 January 2026 is a Thursday), and its HHMM.
DaysFromThursday == <<"Thu", "Fri", "Sat", "Sun", "Mon", "Tue", "Wed">>
DayOfYear(ft) ==
    DaysBefore[DigitVal(ft[5]) * 10 + DigitVal(ft[6])] + DigitVal(ft[7]) * 10 + DigitVal(ft[8])
ThreeLetterDay(ft) == DaysFromThursday[((DayOfYear(ft) - 1) % 7) + 1]
StartHHMM(ft) == SubSeq(ft, 9, 12)

\* A sequence of characters as one string of three letters in lower case.
Lower3(s) ==
    IF Len(s) # 3 THEN <<>> ELSE <<Fold(s[1]), Fold(s[2]), Fold(s[3])>>
LowerDay(name) ==
    CASE name = "Sun" -> <<"s", "u", "n">> [] name = "Mon" -> <<"m", "o", "n">>
      [] name = "Tue" -> <<"t", "u", "e">> [] name = "Wed" -> <<"w", "e", "d">>
      [] name = "Thu" -> <<"t", "h", "u">> [] name = "Fri" -> <<"f", "r", "i">>
      [] name = "Sat" -> <<"s", "a", "t">>

\* The program is one the guide is searched for.
Wanted(prog) ==
    /\ ParseInLocation20060102150405(prog.Ft, Tokyo).ok
    /\ StartHHMM(prog.Ft) = targetTime
    /\ LowerDay(ThreeLetterDay(prog.Ft)) = Lower3(targetDayOfWeek)

WantedPositions ==
    { k \in 1..Len(DocumentOrder(programData.stations)) :
        Wanted(DocumentOrder(programData.stations)[k]) }

\* C23: FindProgramTitle returns the title of the first program, in document
\* order over all stations, whose start timestamp parses, whose HHMM start
\* time equals targetTime and whose three-letter English weekday equals
\* targetDayOfWeek ignoring case (programs whose start timestamp does not
\* parse are skipped); when there is none, or the guide cannot be parsed, it
\* returns an empty title and an error.
C23_FirstMatchingTitle ==
    \A n \in 1..Len(found) :
        IF programData.wellFormed /\ WantedPositions # {}
        THEN LET first == CHOOSE k \in WantedPositions : \A j \in WantedPositions : k <= j
             IN  /\ found[n].title = DocumentOrder(programData.stations)[first].Title
                 /\ found[n].err = "nil"
        ELSE found[n].title = "" /\ found[n].err # "nil"

\* C23 witness: the title found is that of a program of the second station,
\* after a program whose start is no timestamp was skipped and the first
\* station held no match; the day was given in another case.
C23_Witness ==
    /\ found # <<>>
    /\ found[1] = Found("Second")
    /\ programData = Guide(<<<<ProgTue>>, <<ProgNoTime, ProgMon2>>>>)
    /\ targetDayOfWeek = <<"m", "O", "N">>

-----------------------------------------------------------------------------
(* Properties of the staged names *)

\* The characters of a staged name in the order of their codes.
CharOrder ==
    <<".", "0", "1", "2", "3", "4", "5", "6", "7", "8", "9", "_", "a", "c", "h", "k", "n", "u">>
CharCode(c) == CHOOSE k \in 1..Len(CharOrder) : CharOrder[k] = c

\* s comes before t in lexicographic order.
LexLess(s, t) ==
    \E k \in 1..Len(t) :
        /\ \A j \in 1..(k - 1) : j <= Len(s) /\ s[j] = t[j]
        /\ k > Len(s) \/ (k <= Len(s) /\ CharCode(s[k]) < CharCode(t[k]))

\* The file name of a staged path.
StagedName(path) == path[Len(path)]

\* C24: the staged file names are fixed-width: for any two indices i < j of a
\* segment list, whatever its length, the name for i is different from and
\* lexicographically smaller than the name for j.
C24_NamesOrderedAsIndices ==
    \A a \in 1..Len(downloadedFiles) : \A b \in 1..Len(downloadedFiles) :
        a < b =>
            /\ StagedName(downloadedFiles[a]) # StagedName(downloadedFiles[b])
            /\ LexLess(StagedName(downloadedFiles[a]), StagedName(downloadedFiles[b]))

-----------------------------------------------------------------------------
(* Properties of the output names *)

\* What names the job of the n-th entry: its occurrence, station id and
\* program name; and the output path of that job.
Triple(n) == <<results[n].t, schedule[n].StationID, schedule[n].ProgramName>>
OutputPathOf(n) == OutputFilePath(OutputDir, schedule[n], results[n].t)

\* The entries resolved so far to an occurrence.
Occurrences == { n \in 1..Len(results) : results[n].err = NoError }

\* The entry whose job made the event at position p of the trace.
EntryOfPosition(p) ==
    trace[CHOOSE q \in PositionsOf("job") :
            q < p /\ \A r \in PositionsOf("job") : r < p => r <= q].index + 1

\* C25: two jobs whose (occurrence timestamp, station id, program name)
\* triples differ get different output file paths in the output directory,
\* so no job of a run overwrites the output file of another job.
C25_DistinctOutputPaths ==
    /\ \A a \in Occurrences : \A b \in Occurrences :
          Triple(a) # Triple(b) => OutputPathOf(a) # OutputPathOf(b)
    /\ \A p \in OutputCreations : \A q \in OutputCreations :
          (p < q /\ trace[p].path = trace[q].path) =>
              Triple(EntryOfPosition(p)) = Triple(EntryOfPosition(q))


\* The call of ExecuteJob that returned last: its position in the trace, and
\* whether it returned an error.
LastJobPosition == CHOOSE p \in PositionsOf("job") : \A q \in PositionsOf("job") : q <= p
JobFailed == ej.stage = "returned" /\ jobs # <<>> /\ LastJob.err # NoJobError

\* A file as a sequence of no or one content: what was at the path of the
\* output creation at position p before it (the run starts with no file,
\* and only an output creation makes a file outside a workspace), and what
\* is at a path now.
OutputBefore(p) ==
    IF \E q \in OutputCreations : q < p /\ trace[q].path = trace[p].path
    THEN <<trace[p].data>> ELSE <<>>
OutputNow(path) == IF Exists(path) THEN <<fs[path]>> ELSE <<>>

\* C26: whenever ExecuteJob returns an error, whatever the failing stage, the
\* file system at the job's output path is as it was before the job started:
\* no new or partial output file is left behind and a file that was there is
\* not modified.
C26_OutputUntouchedOnError ==
    JobFailed =>
        \A p \in OutputCreations \cap JobSpan(LastJobPosition) :
            OutputNow(trace[p].path) = OutputBefore(p)


\* The position in the trace of the call of ExecuteJob for the entry of
\* index n, and the events of one kind among those of a call.
JobPosition(n) == CHOOSE p \in PositionsOf("job") : trace[p].index = n
EventsIn(span, ops) == { q \in span : trace[q].op \in ops }

\* The errors of the stages before the workspace, and the events that act
\* on the file system or ask for a segment.
EarlyMessages ==
    { "failed to authorize Radiko token", "failed to get timeshift M3U8 playlist URI",
      "failed to get chunklist from M3U8" }
FileSystemOps == {"mkdirtemp", "mkdirall", "create", "copy", "open", "removeall"}

\* Within every call of ExecuteJob the workspace is made at most once, after
\* the segment list was asked for and before every segment request.
WorkspaceAfterSegmentList ==
    \A p \in PositionsOf("job") :
        LET span == JobSpan(p)
        IN  /\ Cardinality(EventsIn(span, {"mkdirtemp"})) <= 1
            /\ \A m \in EventsIn(span, {"mkdirtemp"}) :
                  /\ \E c \in EventsIn(span, {"chunklist"}) : c < m
                  /\ \A r \in EventsIn(span, {"request", "create", "copy", "open"}) : m < r

\* A job that failed before its segment list was obtained made no workspace,
\* asked for no segment and did nothing to the file system.
NoWorkspaceOnEarlyFailure ==
    \A n \in 1..Len(jobs) :
        jobs[n].err.msg \in EarlyMessages =>
            /\ jobs[n].tempDir = ""
            /\ EventsIn(JobSpan(JobPosition(jobs[n].index)), FileSystemOps \cup {"request"}) = {}

\* The steps of ExecuteJob up to the segment list leave files and
\* directories as they are.
EarlyStagesKeepFileSystem ==
    pc \in {"ej_auth", "ej_playlist", "ej_chunklist"} => (fs' = fs /\ dirs' = dirs)

\* C27: the temporary workspace of a job is created only after the segment
\* list has been obtained and before the first segment request: when
\* authorization, playlist resolution or segment expansion fails, no
\* workspace is ever created for that job and the job leaves the file system
\* unchanged.
C27_WorkspaceOnlyAfterSegmentList ==
    /\ [](WorkspaceAfterSegmentList /\ NoWorkspaceOnEarlyFailure)
    /\ [][EarlyStagesKeepFileSystem]_vars

\* C27 witness: the first job of a run failed on its segment list and made
\* no workspace; the second made one and has asked for a segment.
C27_Witness ==
    /\ Len(jobs) = 1
    /\ jobs[1].err.msg = "failed to get chunklist from M3U8"
    /\ jobs[1].tempDir = ""
    /\ ej.stage = "download"
    /\ ej.tempDir # ""
    /\ PositionsOf("mkdirtemp") # {}
    /\ PositionsOf("request") # {}


\* The response bodies and staged files bulkDownload holds open, and the
\* input files concatAACFiles holds open.
OpenDownloads == { r \in openRes : r.kind \in {"body", "file"} }
OpenInputs == { r \in openRes : r.kind = "in" }

\* C28: during bulkDownload and concatAACFiles the number of simultaneously
\* open resources is bounded by a constant that does not depend on the
\* number of segments: once segment i has been requested nothing of an
\* earlier segment is open (one body and one staged file at most), and once
\* input file i has been opened no earlier input file is open (the output
\* and one input at most).
C28_BoundedOpenResources ==
    /\ pc \in {"bd_status", "bd_copy"} =>
          /\ \A r \in OpenDownloads : r.index = i
          /\ Cardinality(OpenDownloads) <= 2
    /\ pc = "cc_copy" =>
          /\ \A r \in OpenInputs : r.index = ci
          /\ Cardinality(openRes) <= 2


\* now as the same instant carried in the location loc.
NowIn(loc) == [now EXCEPT !.loc = loc]

\* C29: the result of CalculateRecentPastRunTime depends only on the entry
\* and on the instant now denotes, not on the location now is carried in:
\* the call answers what it answers for the same instant in Tokyo time and
\* in UTC, and the resolved occurrence lies in the 7 days ending at now.
C29_IndependentOfLocation ==
    \A k \in 1..Len(results) :
        /\ \A loc \in {Tokyo, UTC} :
              LET other == CalculateRecentPastRunTime(entry, NowIn(loc))
              IN  /\ results[k].err = other.err
                  /\ results[k].t.isZero = other.t.isZero
                  /\ results[k].t.unix = other.t.unix
        /\ ValidEntry =>
              /\ now.unix - 7 * TicksPerDay < results[k].t.unix
              /\ results[k].t.unix <= now.unix


\* The call of ExecuteJob for the entry of index n is in progress; it has
\* returned (Done when it returned no error, Failed otherwise).
JobRunning(n) == idx = n /\ ej.stage \notin {"none", "returned"} /\ pc # "main_done"
JobOver(n) == \E m \in 1..Len(jobs) : jobs[m].index = n
JobDone(n) == \E m \in 1..Len(jobs) : jobs[m].index = n /\ jobs[m].err = NoJobError
JobFailedFor(n) == \E m \in 1..Len(jobs) : jobs[m].index = n /\ jobs[m].err # NoJobError

\* A call of ExecuteJob is in progress; the call for the entry main is at
\* (or, once the index has advanced, was at) has returned, Done or Failed.
JobInProgress == \E n \in 0..(MaxEntries - 1) : JobRunning(n)
JobReturned == ej.stage = "returned" /\ (JobDone(idx - 1) \/ JobFailedFor(idx - 1))

\* Every entry of the schedule was skipped on a resolver error or had its
\* job returned.
AllEntriesSettled ==
    /\ Len(results) = Len(schedule)
    /\ \A n \in 1..Len(schedule) : results[n].err # NoError \/ JobOver(n - 1)

\* C30: when every external operation returns, every job that is started
\* reaches Done or Failed, and the run over a finite schedule with finite
\* segment lists reaches its end with every entry processed.
C30_EveryJobAndRunEnds ==
    /\ JobInProgress ~> JobReturned
    /\ <>(RunEnded /\ AllEntriesSettled)

\* C30 witness: a run of two entries has reached its end; the first job is
\* Done after staging a segment, the second Failed in assembly.
C30_Witness ==
    /\ RunEnded
    /\ AllEntriesSettled
    /\ Len(schedule) = 2
    /\ JobDone(0)
    /\ JobFailedFor(1)
    /\ jobs[2].err.msg = "failed to concatenate AAC files"
    /\ PositionsOf("response") # {}

=============================================================================
